---- MODULE Spec2Model ----
(***************************************************************************)
(* State-tracking engine of the Innovation tracker: GameState              *)
(* (game_state.py), Card (card.py) and the event shapes of StateTracker    *)
(* (state_tracker.py), driven by a truthful event stream of a real game.   *)
(***************************************************************************)
EXTENDS Integers, Sequences, FiniteSets, TLC

VARIABLES
    decks,          \* GameState.decks: group_key -> list of card ids, index 1 = top
    hands,          \* GameState.hands: player -> list of card ids
    boards,         \* GameState.boards
    scores,         \* GameState.scores
    revealed,       \* GameState.revealed
    achievements,   \* GameState.achievements: list of card ids (ages 1-9)
    cards,          \* the Card objects: card id -> fields of the Card
    truth,          \* the real game: true identities held by every zone
    last,           \* the call just made (Action and moved card, or reveal)
    err,            \* exception that aborted the run, "" while running
    steps,          \* number of events fed so far
    boarded,        \* the cards that a move has placed on a board so far
    propagating     \* the local flag "changed" of a running _propagate call:
                    \* TRUE while the call has a pass to run

vars == <<decks, hands, boards, scores, revealed, achievements, cards,
          truth, last, err, steps, boarded, propagating>>

(***************************************************************************)
(* Bounds and program constants                                            *)
(***************************************************************************)
MaxMoves == 3
MaxOppMoves == 6
MaxMeMoves == 5
MaxReveal == 2
MaxDrawMoves == 6
MaxEmptyAge == 2
MaxOppMeldMoves == 8
MaxLateMoves == 4
MaxLoggedAge == 10
MaxCardCalls == 2
MaxDistance == 1
MaxPasses == 10

SET_BASE == 0
NUM_ACHIEVEMENT_AGES == 9
DEAL_PER_PLAYER == 2
NAKED_MIN_UNRESOLVED == 3

None == "None"
NoGroupKey == <<>>

ME == "Me"
OPP == "Opp"
players == <<ME, OPP>>
perspective == ME
Players == {players[i] : i \in DOMAIN players}

(***************************************************************************)
(* Card database: the rows of cardinfo.json, in file order. Six age-1      *)
(* base identities (one achievement, four dealt, one left in the deck),    *)
(* two age-2 identities (one achievement, one left in the deck) and one    *)
(* identity for each of the ages 3-9.                                      *)
(***************************************************************************)
CardInfo(name, index_name, age, color) ==
    [name |-> name, index_name |-> index_name, age |-> age, color |-> color,
     card_set |-> SET_BASE]

card_db ==
    << CardInfo("Agriculture", "agriculture", 1, "yellow"),
       CardInfo("Archery", "archery", 1, "red"),
       CardInfo("Clothing", "clothing", 1, "green"),
       CardInfo("Masonry", "masonry", 1, "yellow"),
       CardInfo("Oars", "oars", 1, "red"),
       CardInfo("Pottery", "pottery", 1, "blue"),
       CardInfo("Calendar", "calendar", 2, "blue"),
       CardInfo("Construction", "construction", 2, "red"),
       CardInfo("Paper", "paper", 3, "green"),
       CardInfo("Anatomy", "anatomy", 4, "yellow"),
       CardInfo("Coal", "coal", 5, "red"),
       CardInfo("Canning", "canning", 6, "yellow"),
       CardInfo("Bicycle", "bicycle", 7, "green"),
       CardInfo("Flight", "flight", 8, "red"),
       CardInfo("Computers", "computers", 9, "blue") >>

IndexNames == {card_db[i].index_name : i \in DOMAIN card_db}

info_group_key(i) == <<card_db[i].age, card_db[i].card_set>>

\* card_db[name].group_key
GroupKeyByName == [name \in IndexNames |->
    info_group_key(CHOOSE i \in DOMAIN card_db : card_db[i].index_name = name)]

db_group_key(name) == GroupKeyByName[name]

GroupKeys == {info_group_key(i) : i \in DOMAIN card_db}

NamesOf(gk) == {n \in IndexNames : db_group_key(n) = gk}

\* The Card objects are named by group and creation order within the group:
\* the k-th card init_game creates for (age, card_set) is card
\* 100 * age + 10 * card_set + k.
CardId(gk, k) == 100 * gk[1] + 10 * gk[2] + k

_groups == [gk \in GroupKeys |->
              [k \in 1..Cardinality(NamesOf(gk)) |-> CardId(gk, k)]]

CardIds == UNION {{_groups[gk][k] : k \in DOMAIN _groups[gk]} : gk \in GroupKeys}

Range(s) == {s[i] : i \in DOMAIN s}

GroupCards(gk) == Range(_groups[gk])

(***************************************************************************)
(* Card (card.py)                                                          *)
(***************************************************************************)
Card(age, card_set, candidates) ==
    [age |-> age, card_set |-> card_set, candidates |-> candidates,
     opponent_knows_exact |-> FALSE, opponent_might_suspect |-> {},
     suspect_list_explicit |-> FALSE]

group_key(c) == <<c.age, c.card_set>>

is_resolved(c) == Cardinality(c.candidates) = 1

card_index(c) == IF is_resolved(c) THEN CHOOSE n \in c.candidates : TRUE ELSE None

\* Card.remove_candidates(names): the card it leaves, and what it returns.
remove_candidates(c, names) ==
    [card |-> [c EXCEPT !.candidates = @ \ names],
     returns |-> Cardinality(c.candidates \ names) < Cardinality(c.candidates)]

resolve(c, name) == [c EXCEPT !.candidates = {name}]

mark_public(c) ==
    [c EXCEPT !.opponent_knows_exact = TRUE,
              !.opponent_might_suspect = {card_index(c)},
              !.suspect_list_explicit = TRUE]

(***************************************************************************)
(* Constraint propagation (GameState._propagate). The operators work on    *)
(* cs, the Card objects by id, and on group, the list _groups[group_key].  *)
(***************************************************************************)
Result(cs, changed) == [cs |-> cs, changed |-> changed]

\* cs with the Card object id replaced by c.
SetCard(cs, id, c) == [o \in DOMAIN cs |-> IF o = id THEN c ELSE cs[o]]

\* 1. Singleton propagation: the cards of the group in list order; a card
\* resolved when its turn comes has its identity discarded from every other.
RECURSIVE SingletonStep(_, _, _, _)
SingletonStep(cs, group, i, changed) ==
    IF i > Len(group) THEN Result(cs, changed)
    ELSE IF ~is_resolved(cs[group[i]]) THEN SingletonStep(cs, group, i + 1, changed)
    ELSE LET name == card_index(cs[group[i]])
             hit == {o \in Range(group) : o # group[i] /\ name \in cs[o].candidates}
             cs2 == [o \in DOMAIN cs |->
                       IF o \in hit THEN [cs[o] EXCEPT !.candidates = @ \ {name}]
                       ELSE cs[o]]
         IN SingletonStep(cs2, group, i + 1,
                          changed \/ \E o \in hit : is_resolved(cs2[o]))

Holders(cs, group, name) ==
    {o \in Range(group) : name \in cs[o].candidates /\ ~is_resolved(cs[o])}

\* 2. Hidden singles: the names are visited in the iteration order of a
\* Python set of strings, which differs from run to run: every order is a
\* possible outcome. todo is the part of that set not yet visited. Once no
\* name left has exactly one holder no later visit can change anything.
RECURSIVE HiddenSinglesStep(_, _, _, _)
HiddenSinglesStep(cs, group, todo, changed) ==
    IF \A n \in todo : Cardinality(Holders(cs, group, n)) # 1
    THEN {Result(cs, changed)}
    ELSE UNION {
        LET holders == Holders(cs, group, n) IN
        IF Cardinality(holders) = 1
        THEN LET h == CHOOSE o \in holders : TRUE IN
             HiddenSinglesStep(SetCard(cs, h, resolve(cs[h], n)), group,
                               todo \ {n}, TRUE)
        ELSE HiddenSinglesStep(cs, group, todo \ {n}, changed)
        : n \in todo }

UnresolvedNames(cs, group) ==
    UNION {cs[o].candidates : o \in {x \in Range(group) : ~is_resolved(cs[x])}}

\* for subset in combinations(unresolved, size): the first combination, in
\* itertools order, whose candidates hold exactly size names; {} if there is
\* none. Combinations that take index i come before those that skip it, and
\* a partial combination already holding more than size names has no hit.
RECURSIVE FirstNaked(_, _, _, _, _, _)
FirstNaked(cs, U, size, i, chosen, union) ==
    IF Cardinality(chosen) = size
    THEN (IF Cardinality(union) = size THEN chosen ELSE {})
    ELSE IF i > Len(U) THEN {}
    ELSE LET grown == union \cup cs[U[i]].candidates
             taking == IF Cardinality(grown) <= size
                       THEN FirstNaked(cs, U, size, i + 1, chosen \cup {i}, grown)
                       ELSE {}
         IN IF taking # {} THEN taking
            ELSE FirstNaked(cs, U, size, i + 1, chosen, union)

\* A naked-subsets step that asks for another pass whenever it finds a naked
\* subset.
NakedSize_always_changed(cs, U, size, changed) ==
    LET S == FirstNaked(cs, U, size, 1, {}, {})
    IN IF S = {} THEN Result(cs, changed)
       ELSE LET union == UNION {cs[U[i]].candidates : i \in S}
                subset == {U[i] : i \in S}
                others == Range(U) \ subset
                cs2 == [o \in DOMAIN cs |->
                          IF o \in others THEN [cs[o] EXCEPT !.candidates = @ \ union]
                          ELSE cs[o]]
            IN Result(cs2, TRUE)

\* One value of size in the naked-subsets loop: the first hit is applied to
\* every card of the unresolved list outside it, then the search for this
\* size is left (break).
NakedSize(cs, U, size, changed) ==
    LET S == FirstNaked(cs, U, size, 1, {}, {})
    IN IF S = {} THEN Result(cs, changed)
       ELSE LET union == UNION {cs[U[i]].candidates : i \in S}
                subset == {U[i] : i \in S}
                others == Range(U) \ subset
                cs2 == [o \in DOMAIN cs |->
                          IF o \in others THEN [cs[o] EXCEPT !.candidates = @ \ union]
                          ELSE cs[o]]
            IN Result(cs2, changed \/ \E o \in others : is_resolved(cs2[o]))

RECURSIVE NakedSizes(_, _, _, _)
NakedSizes(cs, U, size, changed) ==
    IF size >= Len(U) THEN Result(cs, changed)
    ELSE LET r == NakedSize(cs, U, size, changed)
         IN NakedSizes(r.cs, U, size + 1, r.changed)

\* 3. Naked subsets, over the cards unresolved when the step starts.
NakedSubsetsStep(cs, group, changed) ==
    LET unresolved == SelectSeq(group, LAMBDA o : ~is_resolved(cs[o]))
    IN IF Len(unresolved) > NAKED_MIN_UNRESOLVED
       THEN NakedSizes(cs, unresolved, 2, changed)
       ELSE Result(cs, changed)

\* A suspect propagation that removes the names and deduces nothing.
RECURSIVE SuspectStep_no_deduction(_, _, _, _)
SuspectStep_no_deduction(cs, group, i, changed) ==
    IF i > Len(group) THEN Result(cs, changed)
    ELSE IF ~(cs[group[i]].opponent_knows_exact /\ is_resolved(cs[group[i]]))
    THEN SuspectStep_no_deduction(cs, group, i + 1, changed)
    ELSE LET name == card_index(cs[group[i]])
             cs2 == [o \in DOMAIN cs |->
                       IF o \in Range(group) /\ o # group[i]
                       THEN [cs[o] EXCEPT !.opponent_might_suspect = @ \ {name}]
                       ELSE cs[o]]
         IN SuspectStep_no_deduction(cs2, group, i + 1, changed)

\* 4. Suspect propagation, the cards of the group in list order.
RECURSIVE SuspectStep(_, _, _, _)
SuspectStep(cs, group, i, changed) ==
    IF i > Len(group) THEN Result(cs, changed)
    ELSE IF ~(cs[group[i]].opponent_knows_exact /\ is_resolved(cs[group[i]]))
    THEN SuspectStep(cs, group, i + 1, changed)
    ELSE LET name == card_index(cs[group[i]])
             hit == {o \in Range(group) :
                        o # group[i] /\ name \in cs[o].opponent_might_suspect}
             deduced == {o \in hit :
                            /\ cs[o].suspect_list_explicit
                            /\ Cardinality(cs[o].opponent_might_suspect \ {name}) = 1}
             cs2 == [o \in DOMAIN cs |->
                       IF o \in hit
                       THEN [cs[o] EXCEPT
                               !.opponent_might_suspect = @ \ {name},
                               !.opponent_knows_exact = (@ \/ o \in deduced)]
                       ELSE cs[o]]
         IN SuspectStep(cs2, group, i + 1, changed \/ deduced # {})

\* One pass of the while loop: the set of states it can leave.
PropagatePass(cs, group) ==
    LET s1 == SingletonStep(cs, group, 1, FALSE)
    IN { LET s3 == NakedSubsetsStep(s2.cs, group, s2.changed)
         IN SuspectStep(s3.cs, group, 1, s3.changed)
         : s2 \in HiddenSinglesStep(s1.cs, group,
                                    UnresolvedNames(s1.cs, group), s1.changed) }

\* The while loop: passes until one leaves the change flag false.
RECURSIVE PropagateLoop(_, _)
PropagateLoop(cs, group) ==
    UNION { IF r.changed THEN PropagateLoop(r.cs, group) ELSE {r.cs}
            : r \in PropagatePass(cs, group) }

_propagate(cs, gk) == PropagateLoop(cs, _groups[gk])

(***************************************************************************)
(* GameState (game_state.py). gs is the GameState object: a record of its  *)
(* zone containers and of the Card objects they hold.                      *)
(***************************************************************************)
Action(source, dest, name, gk, source_player, dest_player) ==
    [source |-> source, dest |-> dest, card_index |-> name, group_key |-> gk,
     source_player |-> source_player, dest_player |-> dest_player]

_cards_at(gs, loc_type, player, gk) ==
    CASE loc_type = "deck" -> gs.decks[gk]
      [] loc_type = "hand" -> gs.hands[player]
      [] loc_type = "board" -> gs.boards[player]
      [] loc_type = "score" -> gs.scores[player]
      [] loc_type = "revealed" -> gs.revealed[player]

\* The list returned by _cards_at is the container itself: mutating it
\* (remove, append) mutates the zone.
SetCardsAt(gs, loc_type, player, gk, list) ==
    CASE loc_type = "deck" -> [gs EXCEPT !.decks[gk] = list]
      [] loc_type = "hand" -> [gs EXCEPT !.hands[player] = list]
      [] loc_type = "board" -> [gs EXCEPT !.boards[player] = list]
      [] loc_type = "score" -> [gs EXCEPT !.scores[player] = list]
      [] loc_type = "revealed" -> [gs EXCEPT !.revealed[player] = list]

\* A remove that leaves the list as it is.
ListRemove_kept(list, id) == list

\* list.remove(card): drops the first occurrence.
ListRemove(list, id) ==
    LET i == CHOOSE k \in DOMAIN list :
                 list[k] = id /\ \A j \in DOMAIN list : list[j] = id => k <= j
    IN SubSeq(list, 1, i - 1) \o SubSeq(list, i + 1, Len(list))

\* next(c for c in list if P(c)): the first card of the list that matches.
FirstMatch(list, P(_)) ==
    list[CHOOSE k \in DOMAIN list :
             P(list[k]) /\ \A j \in DOMAIN list : P(list[j]) => k <= j]

\* The moved card and every card left in the source zone, whatever its group.
Affected_any_group(cs, id, remaining_source) == {id} \cup Range(remaining_source)

Affected(cs, id, remaining_source) ==
    {id} \cup {o \in Range(remaining_source) : group_key(cs[o]) = group_key(cs[id])}

\* A merge of candidates that does nothing.
_merge_candidates_skipped(cs, id, remaining_source) == cs

_merge_candidates(cs, id, remaining_source) ==
    LET affected == Affected(cs, id, remaining_source)
        union == UNION {cs[o].candidates : o \in affected}
    IN IF Cardinality(affected) <= 1 THEN cs
       ELSE [o \in DOMAIN cs |->
               IF o \in affected THEN [cs[o] EXCEPT !.candidates = union] ELSE cs[o]]

\* A merge of suspects that does nothing.
_merge_suspects_skipped(cs, id, remaining_source, action) == cs

\* A _merge_suspects that does not look at whose card moves.
_merge_suspects_any_player(cs, id, remaining_source, action) ==
    IF ~( /\ action.source \in {"hand", "score"}
          /\ action.dest \in {"deck", "hand", "score"} )
    THEN cs
    ELSE LET affected == Affected(cs, id, remaining_source)
             suspect_union == UNION {cs[o].opponent_might_suspect : o \in affected}
             all_explicit == \A o \in affected : cs[o].suspect_list_explicit
         IN IF Cardinality(affected) = 1 THEN cs
            ELSE [o \in DOMAIN cs |->
                    IF o \in affected
                    THEN [cs[o] EXCEPT !.opponent_knows_exact = FALSE,
                                       !.opponent_might_suspect = suspect_union,
                                       !.suspect_list_explicit = all_explicit]
                    ELSE cs[o]]

\* A _merge_suspects that does not look at where the card goes.
_merge_suspects_any_dest(cs, id, remaining_source, action) ==
    IF ~( /\ action.source \in {"hand", "score"}
          /\ action.source_player = perspective )
    THEN cs
    ELSE LET affected == Affected(cs, id, remaining_source)
             suspect_union == UNION {cs[o].opponent_might_suspect : o \in affected}
             all_explicit == \A o \in affected : cs[o].suspect_list_explicit
         IN IF Cardinality(affected) = 1 THEN cs
            ELSE [o \in DOMAIN cs |->
                    IF o \in affected
                    THEN [cs[o] EXCEPT !.opponent_knows_exact = FALSE,
                                       !.opponent_might_suspect = suspect_union,
                                       !.suspect_list_explicit = all_explicit]
                    ELSE cs[o]]

_merge_suspects(cs, id, remaining_source, action) ==
    IF ~( /\ action.source \in {"hand", "score"}
          /\ action.dest \in {"deck", "hand", "score"}
          /\ action.source_player = perspective
          /\ action.dest_player \in {None, perspective} )
    THEN cs
    ELSE LET affected == Affected(cs, id, remaining_source)
             suspect_union == UNION {cs[o].opponent_might_suspect : o \in affected}
             all_explicit == \A o \in affected : cs[o].suspect_list_explicit
         IN IF Cardinality(affected) = 1 THEN cs
            ELSE [o \in DOMAIN cs |->
                    IF o \in affected
                    THEN [cs[o] EXCEPT !.opponent_knows_exact = FALSE,
                                       !.opponent_might_suspect = suspect_union,
                                       !.suspect_list_explicit = all_explicit]
                    ELSE cs[o]]

\* What a call of _propagate did: the cards that lost a suspect, the cards it
\* made known to the opponent, and the cards that became resolved, each with
\* the candidates it had before.
PropagationEffects(before, after) ==
    [ eliminated |-> {o \in DOMAIN before :
                        after[o].opponent_might_suspect # before[o].opponent_might_suspect},
      deduced |-> {o \in DOMAIN before :
                     after[o].opponent_knows_exact /\ ~before[o].opponent_knows_exact},
      resolved_from |-> [o \in {x \in DOMAIN before :
                                  is_resolved(after[x]) /\ ~is_resolved(before[x])}
                           |-> before[o].candidates] ]

NoEffects == [eliminated |-> {}, deduced |-> {}, resolved_from |-> <<>>]

\* What a call leaves: the exception it raised ("" if none), the GameState, the
\* card it moved (0 if none), and what the propagation it ran did.
Outcome(error, gs, id, effects) ==
    [error |-> error, gs |-> gs, card |-> id, effects |-> effects]

SourceCards(gs, action, gk) ==
    IF action.source = "deck" THEN gs.decks[gk]
    ELSE _cards_at(gs, action.source, action.source_player, gk)

SourceMatches(gs, action, gk, id) ==
    IF action.card_index # None THEN action.card_index \in gs.cards[id].candidates
    ELSE group_key(gs.cards[id]) = gk

\* A removal that merges candidates on named moves as well.
TakeFound_always_merging(gs, cs, action, gk, id) ==
    LET source_cards == ListRemove(SourceCards(gs, action, gk), id)
        merged == IF action.source \in {"hand", "score"}
                  THEN _merge_candidates(cs, id, source_cards)
                  ELSE cs
        cs2 == _merge_suspects(merged, id, source_cards, action)
    IN Outcome("", SetCardsAt([gs EXCEPT !.cards = cs2], action.source,
                              action.source_player, gk, source_cards), id,
               PropagationEffects(gs.cards, cs))

\* The part of _take_from_source after the lookup, for one result of the
\* propagation: remove from the source, merge.
TakeFound(gs, cs, action, gk, id) ==
    LET source_cards == ListRemove(SourceCards(gs, action, gk), id)
        merged == IF action.card_index = None /\ action.source \in {"hand", "score"}
                  THEN _merge_candidates(cs, id, source_cards)
                  ELSE cs
        cs2 == _merge_suspects(merged, id, source_cards, action)
    IN Outcome("", SetCardsAt([gs EXCEPT !.cards = cs2], action.source,
                              action.source_player, gk, source_cards), id,
               PropagationEffects(gs.cards, cs))

\* A _take_from_source that takes no card from an empty stack and raises
\* nothing.
_take_from_source_empty_unchecked(gs, action, gk) ==
    LET source_cards == SourceCards(gs, action, gk) IN
    IF action.source = "deck" /\ source_cards = <<>>
    THEN {Outcome("", gs, 0, NoEffects)}
    ELSE IF action.source # "deck"
            /\ \A k \in DOMAIN source_cards : ~SourceMatches(gs, action, gk, source_cards[k])
    THEN {Outcome("StopIteration", gs, 0, NoEffects)}
    ELSE LET id == IF action.source = "deck" THEN source_cards[1]
                   ELSE FirstMatch(source_cards,
                                   LAMBDA o : SourceMatches(gs, action, gk, o))
         IN IF action.card_index # None /\ ~is_resolved(gs.cards[id])
            THEN { TakeFound(gs, cs, action, gk, id) :
                     cs \in _propagate(SetCard(gs.cards, id,
                                               resolve(gs.cards[id], action.card_index)),
                                       gk) }
            ELSE { TakeFound(gs, gs.cards, action, gk, id) }

_take_from_source(gs, action, gk) ==
    LET source_cards == SourceCards(gs, action, gk) IN
    IF action.source = "deck" /\ source_cards = <<>>
    THEN {Outcome("IndexError", gs, 0, NoEffects)}
    ELSE IF action.source # "deck"
            /\ \A k \in DOMAIN source_cards : ~SourceMatches(gs, action, gk, source_cards[k])
    THEN {Outcome("StopIteration", gs, 0, NoEffects)}
    ELSE LET id == IF action.source = "deck" THEN source_cards[1]
                   ELSE FirstMatch(source_cards,
                                   LAMBDA o : SourceMatches(gs, action, gk, o))
         IN IF action.card_index # None /\ ~is_resolved(gs.cards[id])
            THEN { TakeFound(gs, cs, action, gk, id) :
                     cs \in _propagate(SetCard(gs.cards, id,
                                               resolve(gs.cards[id], action.card_index)),
                                       gk) }
            ELSE { TakeFound(gs, gs.cards, action, gk, id) }

\* An update that, for a card both players see, records only that the
\* opponent knows it.
_update_opponent_knowledge_knows_only(c, action) ==
    IF \/ action.dest \in {"board", "revealed"}
       \/ action.source_player # None /\ action.dest_player # None
          /\ action.source_player # action.dest_player
       \/ action.dest \in {"hand", "score"} /\ action.dest_player # perspective
    THEN [c EXCEPT !.opponent_knows_exact = TRUE]
    ELSE c

\* An update that marks public every card the opponent sees.
_update_opponent_knowledge_all_public(c, action) ==
    IF \/ action.dest \in {"board", "revealed"}
       \/ action.source_player # None /\ action.dest_player # None
          /\ action.source_player # action.dest_player
       \/ action.dest \in {"hand", "score"} /\ action.dest_player # perspective
    THEN mark_public(c)
    ELSE c

\* An update that takes every hand and score pile for one the opponent sees
\* into.
_update_opponent_knowledge_any_holder(c, action) ==
    IF \/ action.dest \in {"board", "revealed"}
       \/ action.source_player # None /\ action.dest_player # None
          /\ action.source_player # action.dest_player
    THEN mark_public(c)
    ELSE IF action.dest \in {"hand", "score"}
    THEN [c EXCEPT !.opponent_knows_exact = TRUE]
    ELSE c

_update_opponent_knowledge(c, action) ==
    LET is_visible_to_both ==
            \/ action.dest \in {"board", "revealed"}
            \/ /\ action.source_player # None
               /\ action.dest_player # None
               /\ action.source_player # action.dest_player
        is_visible_to_opponent ==
            action.dest \in {"hand", "score"} /\ action.dest_player # perspective
    IN IF is_visible_to_both THEN mark_public(c)
       ELSE IF is_visible_to_opponent THEN [c EXCEPT !.opponent_knows_exact = TRUE]
       ELSE c

MoveGroupKey(action) ==
    IF action.card_index # None THEN db_group_key(action.card_index)
    ELSE action.group_key

\* A move that puts the card on top of the destination list.
move_on_top(gs, action) ==
    IF action.card_index # None /\ action.card_index \notin IndexNames
    THEN {Outcome("KeyError", gs, 0, NoEffects)}
    ELSE
        LET gk == MoveGroupKey(action) IN
        { IF t.error # "" THEN t
          ELSE LET placed == SetCardsAt(t.gs, action.dest, action.dest_player, gk,
                                 <<t.card>> \o _cards_at(t.gs, action.dest, action.dest_player, gk))
                   updated == _update_opponent_knowledge(placed.cards[t.card], action)
               IN Outcome("", [placed EXCEPT !.cards = SetCard(placed.cards, t.card, updated)],
                          t.card, t.effects)
          : t \in _take_from_source(gs, action, gk) }

move(gs, action) ==
    IF action.card_index # None /\ action.card_index \notin IndexNames
    THEN {Outcome("KeyError", gs, 0, NoEffects)}
    ELSE
        LET gk == MoveGroupKey(action) IN
        { IF t.error # "" THEN t
          ELSE LET placed == SetCardsAt(t.gs, action.dest, action.dest_player, gk,
                                 Append(_cards_at(t.gs, action.dest, action.dest_player, gk),
                                        t.card))
                   updated == _update_opponent_knowledge(placed.cards[t.card], action)
               IN Outcome("", [placed EXCEPT !.cards = SetCard(placed.cards, t.card, updated)],
                          t.card, t.effects)
          : t \in _take_from_source(gs, action, gk) }

\* reveal_hand: the names of the list one after the other, from index i on.
\* Each name is looked up in the database before the hand is searched.
RECURSIVE RevealFrom(_, _, _, _, _)
RevealFrom(gs, player, card_indices, i, effects) ==
    IF i > Len(card_indices) THEN {Outcome("", gs, 0, effects)}
    ELSE LET name == card_indices[i]
             gk == db_group_key(name)
             hand == gs.hands[player]
         IN IF name \notin IndexNames
            THEN {Outcome("KeyError", gs, 0, effects)}
            ELSE IF \A k \in DOMAIN hand : name \notin gs.cards[hand[k]].candidates
            THEN {Outcome("StopIteration", gs, 0, effects)}
            ELSE LET id == FirstMatch(hand, LAMBDA o : name \in gs.cards[o].candidates)
                     cs1 == SetCard(gs.cards, id, mark_public(resolve(gs.cards[id], name)))
                 IN UNION { LET e == PropagationEffects(cs1, cs) IN
                            RevealFrom([gs EXCEPT !.cards = cs], player, card_indices, i + 1,
                                       [eliminated |-> effects.eliminated \cup e.eliminated,
                                        deduced |-> effects.deduced \cup e.deduced,
                                        resolved_from |-> effects.resolved_from
                                                              @@ e.resolved_from])
                            : cs \in _propagate(cs1, gk) }

reveal_hand(gs, player, card_indices) == RevealFrom(gs, player, card_indices, 1, NoEffects)

\* pop() repeated n times on a list: what is left, and what was popped (in
\* popping order).
Popped(list, n) == [k \in 1..n |-> list[Len(list) + 1 - k]]
\* pop() that leaves the list as it was.
AfterPop_kept(list, n) == list

AfterPop(list, n) == SubSeq(list, 1, Len(list) - n)

PlayerIndex(p) == CHOOSE i \in DOMAIN players : players[i] = p

\* init_game: all cards in decks, one base card of each age 1-9 moved to the
\* achievements, two base age-1 cards dealt to each player.
init_game ==
    LET age1 == <<1, SET_BASE>>
        made == [gk \in GroupKeys |-> _groups[gk]]
        after_ach == [gk \in GroupKeys |->
                        IF gk[2] = SET_BASE /\ gk[1] \in 1..NUM_ACHIEVEMENT_AGES
                        THEN AfterPop(made[gk], 1) ELSE made[gk]]
        dealt == Len(players) * DEAL_PER_PLAYER
    IN [ decks |-> [after_ach EXCEPT ![age1] = AfterPop(@, dealt)],
         hands |-> [p \in Players |->
                      [k \in 1..DEAL_PER_PLAYER |->
                         Popped(after_ach[age1], dealt)[(PlayerIndex(p) - 1) * DEAL_PER_PLAYER + k]]],
         boards |-> [p \in Players |-> <<>>],
         scores |-> [p \in Players |-> <<>>],
         revealed |-> [p \in Players |-> <<>>],
         achievements |-> [a \in 1..NUM_ACHIEVEMENT_AGES |->
                             Popped(made[<<a, SET_BASE>>], 1)[1]],
         cards |-> [id \in CardIds |->
                      LET gk == CHOOSE g \in GroupKeys : id \in GroupCards(g)
                      IN Card(gk[1], gk[2], NamesOf(gk))] ]

(***************************************************************************)
(* Serialization (GameState.to_json)                                       *)
(***************************************************************************)
COLOR_ORDER == [blue |-> 0, red |-> 1, green |-> 2, yellow |-> 3, purple |-> 4]

InfoByName == [n \in IndexNames |->
    card_db[CHOOSE i \in DOMAIN card_db : card_db[i].index_name = n]]

\* CardDB.display_name: a KeyError for anything that is not an index name.
display_name(name_lower) == InfoByName[name_lower].name

\* The index names in the order of Python's string comparison.
NamesInOrder ==
    << "agriculture", "anatomy", "archery", "bicycle", "calendar", "canning",
       "clothing", "coal", "computers", "construction", "flight", "masonry", "oars",
       "paper", "pottery" >>

NameRank(n) == CHOOSE k \in DOMAIN NamesInOrder : NamesInOrder[k] = n

\* CardDB.sort_key: (age, colour order, name_lower).
sort_key(name_lower) ==
    << InfoByName[name_lower].age, COLOR_ORDER[InfoByName[name_lower].color],
       NameRank(name_lower) >>

\* Comparison of two tuples of integers of the same length.
KeyBefore(a, b) ==
    \E i \in DOMAIN a : a[i] < b[i] /\ \A j \in 1..(i - 1) : a[j] = b[j]

\* sorted(...) on a list of <<key, card>> pairs: stable, ascending keys.
RECURSIVE sorted(_)
sorted(pairs) ==
    IF pairs = <<>> THEN <<>>
    ELSE LET rest == sorted(SubSeq(pairs, 1, Len(pairs) - 1))
             x == pairs[Len(pairs)]
             k == Cardinality({i \in DOMAIN rest : ~KeyBefore(x[1], rest[i][1])})
         IN SubSeq(rest, 1, k) \o <<x>> \o SubSeq(rest, k + 1, Len(rest))

\* The resolved cards of a zone, sorted by sort_key.
Named(gs, list) ==
    LET known == SelectSeq(list, LAMBDA o : is_resolved(gs.cards[o]))
        byKey == sorted([k \in DOMAIN known |->
                           <<sort_key(card_index(gs.cards[known[k]])), known[k]>>])
    IN [k \in DOMAIN byKey |-> byKey[k][2]]

\* The unresolved cards of a zone that have a candidate, sorted by
\* (age, card_set).
Unknown(gs, list) ==
    LET unknown == SelectSeq(list, LAMBDA o : /\ ~is_resolved(gs.cards[o])
                                              /\ Cardinality(gs.cards[o].candidates) # 0)
        byKey == sorted([k \in DOMAIN unknown |->
                           <<group_key(gs.cards[unknown[k]]), unknown[k]>>])
    IN [k \in DOMAIN byKey |-> byKey[k][2]]

UnknownEntries(gs, list) ==
    [k \in DOMAIN Unknown(gs, list) |->
        [age |-> gs.cards[Unknown(gs, list)[k]].age,
         set |-> gs.cards[Unknown(gs, list)[k]].card_set]]

board_entries(gs, p) ==
    [k \in DOMAIN Named(gs, gs.boards[p]) |->
        [name |-> display_name(card_index(gs.cards[Named(gs, gs.boards[p])[k]]))]]
    \o UnknownEntries(gs, gs.boards[p])

\* hand_entries and score_entries: the same code for the two zones.
PrivateEntries(gs, list) ==
    [k \in DOMAIN Named(gs, list) |->
        [name |-> display_name(card_index(gs.cards[Named(gs, list)[k]])),
         revealed |-> FALSE]]
    \o UnknownEntries(gs, list)

\* None in the snapshot (a JSON null).
null == <<>>

\* The entries of a deck stack, in stack order: null for an unresolved card.
DeckEntries(gs, stack) ==
    [k \in DOMAIN stack |->
        IF is_resolved(gs.cards[stack[k]])
        THEN [name |-> display_name(card_index(gs.cards[stack[k]])), revealed |-> FALSE]
        ELSE null]

\* accounted: the identities of the resolved cards in hands, boards, score
\* piles and deck stacks.
accounted(gs) ==
    LET held == UNION {Range(gs.hands[p]) \cup Range(gs.boards[p]) \cup Range(gs.scores[p])
                       : p \in Players}
               \cup UNION {Range(gs.decks[gk]) : gk \in GroupKeys}
    IN {card_index(gs.cards[o]) : o \in {x \in held : is_resolved(gs.cards[x])}}

\* names_for_group: the card_index of every Card object of the group, None
\* for an unresolved one.
names_for_group(gs, age, card_set) ==
    IF <<age, card_set>> \in GroupKeys
    THEN [k \in DOMAIN _groups[<<age, card_set>>] |->
             card_index(gs.cards[_groups[<<age, card_set>>][k]])]
    ELSE <<>>

hidden(gs, age) ==
    LET acc == accounted(gs)
    IN SelectSeq(names_for_group(gs, age, SET_BASE), LAMBDA n : n \notin acc)

\* to_json: the snapshot, or the KeyError of display_name(None) when the one
\* hidden entry of an age is an unresolved card. actual_deck is keyed here by
\* group key, for the stacks that hold a card.
to_json(gs) ==
    LET deduced == [age \in 1..NUM_ACHIEVEMENT_AGES |-> hidden(gs, age)] IN
    IF \E age \in 1..NUM_ACHIEVEMENT_AGES :
          Len(deduced[age]) = 1 /\ deduced[age][1] = None
    THEN [error |-> "KeyError"]
    ELSE [ error |-> "",
           actual_deck |-> [gk \in {g \in GroupKeys : gs.decks[g] # <<>>} |->
                              DeckEntries(gs, gs.decks[gk])],
           board |-> [p \in Players |-> board_entries(gs, p)],
           hand |-> [p \in Players |-> PrivateEntries(gs, gs.hands[p])],
           score |-> [p \in Players |-> PrivateEntries(gs, gs.scores[p])],
           achievements |-> [age \in 1..NUM_ACHIEVEMENT_AGES |->
                               IF Len(deduced[age]) = 1
                               THEN [name |-> display_name(deduced[age][1])]
                               ELSE null] ]

(***************************************************************************)
(* Event shapes of StateTracker._process_entry (state_tracker.py): which   *)
(* Action each recognized transfer message becomes. sp and dp say whose    *)
(* zone the source and the destination are: the player the message names   *)
(* ("self"), the other player ("other") or no player (None).               *)
(***************************************************************************)
Shape(source, dest, named, sp, dp) ==
    [source |-> source, dest |-> dest, named |-> named, sp |-> sp, dp |-> dp]

HiddenShapes ==
    { Shape("deck", "hand", FALSE, None, "self"),
      Shape("deck", "score", FALSE, None, "self"),
      Shape("hand", "deck", FALSE, "self", None),
      Shape("score", "deck", FALSE, "self", None),
      Shape("score", "hand", FALSE, "self", "self") }

NamedShapes ==
    { Shape("hand", "board", TRUE, "self", "self"),
      Shape("deck", "revealed", TRUE, None, "self"),
      Shape("revealed", "hand", TRUE, "self", "self"),
      Shape("deck", "hand", TRUE, None, "self"),
      Shape("revealed", "board", TRUE, "self", "self"),
      Shape("hand", "score", TRUE, "self", "self"),
      Shape("board", "score", TRUE, "self", "self"),
      Shape("hand", "hand", TRUE, "self", "other"),
      Shape("hand", "score", TRUE, "self", "other"),
      Shape("hand", "deck", TRUE, "self", None),
      Shape("deck", "score", TRUE, None, "self"),
      Shape("deck", "board", TRUE, None, "self") }

OtherPlayer(p) == CHOOSE q \in Players : q # p

Who(tag, p) ==
    IF tag = "self" THEN p ELSE IF tag = "other" THEN OtherPlayer(p) ELSE None

ShapeAction(shape, p, name) ==
    Action(shape.source, shape.dest,
           IF shape.named THEN name ELSE None,
           IF shape.named THEN NoGroupKey ELSE db_group_key(name),
           Who(shape.sp, p), Who(shape.dp, p))

\* "moves [n] X (board -> board)": the source is the named player's board if
\* a card there admits the name, the other player's board otherwise.
BoardToBoardAction(gs, named_player, name) ==
    LET board == gs.boards[named_player]
        source_player ==
            IF \E k \in DOMAIN board : name \in gs.cards[board[k]].candidates
            THEN named_player ELSE OtherPlayer(named_player)
        dest_player ==
            IF source_player = named_player THEN OtherPlayer(named_player)
            ELSE named_player
    IN Action("board", "board", name, NoGroupKey, source_player, dest_player)

(***************************************************************************)
(* The real game. truth holds the true identities in every zone: a deck is *)
(* the list of its identities from the top, any other zone the set of the  *)
(* identities in it. A truthful event reports a move the real game made.   *)
(***************************************************************************)
\* The shuffle: the card created k-th in its group is the k-th identity of
\* the group in the database. Identities of a group are interchangeable to the tracker, so
\* one shuffle stands for all.
IdentityAtSetup(id) ==
    LET gk == CHOOSE g \in GroupKeys : id \in GroupCards(g)
        k == CHOOSE j \in DOMAIN _groups[gk] : _groups[gk][j] = id
        rows == SelectSeq([i \in DOMAIN card_db |-> i],
                          LAMBDA i : info_group_key(i) = gk)
    IN card_db[rows[k]].index_name

TrueNames(list) == [k \in DOMAIN list |-> IdentityAtSetup(list[k])]

TruthAtSetup ==
    [ decks |-> [gk \in GroupKeys |-> TrueNames(init_game.decks[gk])],
      hands |-> [p \in Players |-> Range(TrueNames(init_game.hands[p]))],
      boards |-> [p \in Players |-> {}],
      scores |-> [p \in Players |-> {}],
      revealed |-> [p \in Players |-> {}],
      achievements |-> TrueNames(init_game.achievements) ]

\* The identities a truthful event can report as leaving the zone.
TrueSource(loc_type, player) ==
    CASE loc_type = "deck" ->
             {truth.decks[gk][1] : gk \in {g \in GroupKeys : truth.decks[g] # <<>>}}
      [] loc_type = "hand" -> truth.hands[player]
      [] loc_type = "board" -> truth.boards[player]
      [] loc_type = "score" -> truth.scores[player]
      [] loc_type = "revealed" -> truth.revealed[player]

TruthRemove(t, loc_type, player, name) ==
    CASE loc_type = "deck" -> [t EXCEPT !.decks[db_group_key(name)] = Tail(@)]
      [] loc_type = "hand" -> [t EXCEPT !.hands[player] = @ \ {name}]
      [] loc_type = "board" -> [t EXCEPT !.boards[player] = @ \ {name}]
      [] loc_type = "score" -> [t EXCEPT !.scores[player] = @ \ {name}]
      [] loc_type = "revealed" -> [t EXCEPT !.revealed[player] = @ \ {name}]

TruthAdd(t, loc_type, player, name) ==
    CASE loc_type = "deck" -> [t EXCEPT !.decks[db_group_key(name)] = Append(@, name)]
      [] loc_type = "hand" -> [t EXCEPT !.hands[player] = @ \cup {name}]
      [] loc_type = "board" -> [t EXCEPT !.boards[player] = @ \cup {name}]
      [] loc_type = "score" -> [t EXCEPT !.scores[player] = @ \cup {name}]
      [] loc_type = "revealed" -> [t EXCEPT !.revealed[player] = @ \cup {name}]

TruthMove(t, src, sp, dst, dp, name) ==
    TruthAdd(TruthRemove(t, src, sp, name), dst, dp, name)

(***************************************************************************)
(* State machine                                                           *)
(***************************************************************************)
GS == [decks |-> decks, hands |-> hands, boards |-> boards, scores |-> scores,
       revealed |-> revealed, achievements |-> achievements, cards |-> cards]

Install(gs) ==
    /\ decks' = gs.decks
    /\ hands' = gs.hands
    /\ boards' = gs.boards
    /\ scores' = gs.scores
    /\ revealed' = gs.revealed
    /\ achievements' = gs.achievements
    /\ cards' = gs.cards

NoAction == Action(None, None, None, NoGroupKey, None, None)

Last(op, action, id, player, card_indices, effects) ==
    [op |-> op, action |-> action, card |-> id, player |-> player,
     card_indices |-> card_indices, effects |-> effects]

Init ==
    /\ decks = init_game.decks
    /\ hands = init_game.hands
    /\ boards = init_game.boards
    /\ scores = init_game.scores
    /\ revealed = init_game.revealed
    /\ achievements = init_game.achievements
    /\ cards = init_game.cards
    /\ truth = TruthAtSetup
    /\ last = Last("init_game", NoAction, 0, None, <<>>, NoEffects)
    /\ err = ""
    /\ steps = 0
    /\ boarded = {}
    /\ propagating = FALSE

\* GameState.move(action), the tracker's answer to one transfer event.
DoMove(action) ==
    \E out \in move(GS, action) :
        /\ Install(out.gs)
        /\ err' = out.error
        /\ last' = Last("move", action, out.card, None, <<>>, out.effects)
        /\ steps' = steps + 1
        /\ boarded' = IF out.error = "" /\ action.dest = "board"
                      THEN boarded \cup {out.card} ELSE boarded
        /\ UNCHANGED propagating

\* A transfer message of one of the given shapes that names a player of P,
\* about a card that truly moves that way.
Transfer(shapes, P) ==
    \E shape \in shapes, p \in P :
        \E name \in TrueSource(shape.source, Who(shape.sp, p)) :
            /\ truth' = TruthMove(truth, shape.source, Who(shape.sp, p),
                                  shape.dest, Who(shape.dp, p), name)
            /\ DoMove(ShapeAction(shape, p, name))

HiddenTransfer(P) == Transfer(HiddenShapes, P)

NamedTransfer(P) == Transfer(NamedShapes, P)

\* A board -> board message: the card truly goes from its holder's board to
\* the other player's; the message may name either player.
BoardToBoard(P) ==
    \E holder \in Players, named_player \in P :
        \E name \in truth.boards[holder] :
            /\ truth' = TruthMove(truth, "board", holder,
                                  "board", OtherPlayer(holder), name)
            /\ DoMove(BoardToBoardAction(GS, named_player, name))

\* The orders in which a message can list a set of names.
RECURSIVE Orders(_)
Orders(S) ==
    IF S = {} THEN {<<>>}
    ELSE UNION {{<<n>> \o rest : rest \in Orders(S \ {n})} : n \in S}

\* GameState.reveal_hand(player, card_indices), the tracker's answer to one
\* "reveals his hand" entry.
DoRevealHand(p, card_indices) ==
    \E out \in reveal_hand(GS, p, card_indices) :
        /\ Install(out.gs)
        /\ err' = out.error
        /\ last' = Last("reveal_hand", NoAction, 0, p, card_indices, out.effects)
        /\ steps' = steps + 1
        /\ UNCHANGED <<truth, boarded, propagating>>

\* "reveals his hand": the names of the player's true hand.
RevealHand(P) ==
    \E p \in P :
        /\ truth.hands[p] # {}
        /\ Cardinality(truth.hands[p]) <= MaxReveal
        /\ \E card_indices \in Orders(truth.hands[p]) :
             DoRevealHand(p, card_indices)

Live(bound) == err = "" /\ steps < bound

\* The whole log: messages name either player.
HiddenEvent == Live(MaxMoves) /\ HiddenTransfer(Players)

NamedEvent == Live(MaxMoves) /\ NamedTransfer(Players)

BoardToBoardEvent == Live(MaxMoves) /\ BoardToBoard(Players)

RevealHandEvent == Live(MaxMoves) /\ RevealHand(Players)

Next ==
    \/ HiddenEvent
    \/ NamedEvent
    \/ BoardToBoardEvent
    \/ RevealHandEvent

Spec == Init /\ [][Next]_vars

\* The stretches of the log below are early ones: every draw is from the
\* age-1 stack, the stacks of the later ages are as init_game left them.
FirstAgeOnly ==
    \A gk \in GroupKeys :
        gk # <<1, SET_BASE>> => truth.decks[gk] = TruthAtSetup.decks[gk]

\* A longer stretch of the log in which only the opponent plays, and only
\* between decks, hands and score piles: every message names the opponent.
PrivateZones == {"deck", "hand", "score"}

PrivateShapes(shapes) ==
    {s \in shapes : s.source \in PrivateZones /\ s.dest \in PrivateZones}

OppHiddenEvent ==
    /\ Live(MaxOppMoves)
    /\ Transfer(PrivateShapes(HiddenShapes), {OPP})
    /\ FirstAgeOnly'

OppNamedEvent ==
    /\ Live(MaxOppMoves)
    /\ Transfer(PrivateShapes(NamedShapes), {OPP})
    /\ FirstAgeOnly'

NextOpp ==
    \/ OppHiddenEvent
    \/ OppNamedEvent

SpecOpp == Init /\ [][NextOpp]_vars

\* A stretch of the log in which only the perspective player plays: every
\* message names the perspective player.
MeHiddenEvent ==
    /\ Live(MaxMeMoves)
    /\ HiddenTransfer({ME})
    /\ FirstAgeOnly'

MeNamedEvent ==
    /\ Live(MaxMeMoves)
    /\ NamedTransfer({ME})
    /\ FirstAgeOnly'

MeRevealHandEvent == Live(MaxMeMoves) /\ RevealHand({ME})

NextMe ==
    \/ MeHiddenEvent
    \/ MeNamedEvent
    \/ MeRevealHandEvent

SpecMe == Init /\ [][NextMe]_vars

\* A longer stretch of the log in which the players only draw into their
\* hands and return cards from their hands: anonymous draws and returns of
\* either player, draws of the perspective player that name the card, and
\* reveals of the perspective player's hand.
DrawShapes(shapes) ==
    {s \in shapes : s.source \in {"deck", "hand"} /\ s.dest \in {"deck", "hand"}}

DrawHiddenEvent ==
    /\ Live(MaxDrawMoves)
    /\ Transfer(DrawShapes(HiddenShapes), Players)
    /\ FirstAgeOnly'

DrawNamedEvent ==
    /\ Live(MaxDrawMoves)
    /\ Transfer({s \in DrawShapes(NamedShapes) : s.source = "deck"}, {perspective})
    /\ FirstAgeOnly'

DrawRevealHandEvent == Live(MaxDrawMoves) /\ RevealHand({perspective})

NextDraw ==
    \/ DrawHiddenEvent
    \/ DrawNamedEvent
    \/ DrawRevealHandEvent

SpecDraw == Init /\ [][NextDraw]_vars

(***************************************************************************)
(* Log entries and the patterns of StateTracker._process_entry             *)
(* (state_tracker.py). A message is the list of its words; ".", "," and    *)
(* "'s" are words written without a space before them. A pattern is a      *)
(* list of words and groups. Every pattern of _process_entry is anchored   *)
(* at both ends and has at most one group of any length; each of its       *)
(* other groups takes one word.                                            *)
(***************************************************************************)
SET_CITIES == 3
LABEL_TO_SET == [base |-> SET_BASE, cities |-> SET_CITIES]

\* The groups of the patterns, by their text in the source.
PP == "({PP})"
AGE == "\\[(\\d+)\\]"
SET == "(base|cities)"
NAME == "(.+?)"
REST == "(.+)"
ANY == ".+?"

\* "[n]", the word AGE takes, for the ages a message of the model can carry.
AgeWord(age) == "[" \o ToString(age) \o "]"

\* A group or word of a pattern against one word of a message.
WordMatches(g, word) ==
    CASE g = PP -> word \in Players
      [] g = AGE -> word \in {AgeWord(age) : age \in 0..MaxLoggedAge}
      [] g = SET -> word \in DOMAIN LABEL_TO_SET
      [] OTHER -> word = g

\* The positions of the pattern that hold a group of any length.
LongAt(pattern) == {k \in DOMAIN pattern : pattern[k] \in {NAME, REST, ANY}}

\* re.match(pattern, msg): the words before the group of any length match
\* the head of the message, the words after it the tail, and the group
\* takes what is between, one word at least.
Matches(pattern, msg) ==
    LET extra == Len(msg) - Len(pattern) IN
    IF LongAt(pattern) = {}
    THEN /\ extra = 0
         /\ \A k \in DOMAIN pattern : WordMatches(pattern[k], msg[k])
    ELSE LET at == CHOOSE k \in LongAt(pattern) : TRUE IN
         /\ extra >= 0
         /\ \A k \in 1..(at - 1) : WordMatches(pattern[k], msg[k])
         /\ \A k \in (at + 1)..Len(pattern) : WordMatches(pattern[k], msg[k + extra])

\* m.group(n): the words of a matching message taken by the n-th capturing
\* group of the pattern.
m_group(pattern, msg, n) ==
    LET extra == Len(msg) - Len(pattern)
        at == IF LongAt(pattern) = {} THEN Len(pattern) + 1
              ELSE CHOOSE j \in LongAt(pattern) : TRUE
        k == SelectSeq([j \in DOMAIN pattern |-> j],
                       LAMBDA j : pattern[j] \in {PP, AGE, SET, NAME, REST})[n]
    IN IF k < at THEN <<msg[k]>>
       ELSE IF k = at THEN SubSeq(msg, k, k + extra)
       ELSE <<msg[k + extra]>>

\* The text of a message.
RECURSIVE Join(_)
Join(words) ==
    IF words = <<>> THEN ""
    ELSE IF Len(words) = 1 THEN words[1]
    ELSE words[1] \o (IF words[2] \in {".", ",", "'s"} THEN "" ELSE " ") \o Join(Tail(words))

\* str.lower() of a word: a card name becomes its index name (card.py 106);
\* the other words of the messages below are in lower case but for these.
lower(word) ==
    IF \E i \in DOMAIN card_db : card_db[i].name = word
    THEN card_db[CHOOSE i \in DOMAIN card_db : card_db[i].name = word].index_name
    ELSE CASE word = "Me" -> "me"
           [] word = "Opp" -> "opp"
           [] word = "Legend" -> "legend"
           [] word = "Foo" -> "foo"
           [] OTHER -> word

\* m.group(3).lower() of a NAME group
NameLower(words) == Join([k \in DOMAIN words |-> lower(words[k])])

\* One branch of the if/elif chain over transfer messages: its pattern, and
\* the Action it builds. sp and dp are the group that gives the source and
\* the destination player, None if the Action has none.
Branch(line, kind, pattern, source, dest, sp, dp) ==
    [line |-> line, kind |-> kind, pattern |-> pattern, source |-> source,
     dest |-> dest, sp |-> sp, dp |-> dp]

Patterns ==
    << Branch(52, "hidden", <<PP, "draws", "a", AGE, "from", SET, ".">>,
              "deck", "hand", None, "1"),
       Branch(56, "hidden", <<PP, "draws", "and", "scores", "a", AGE, "from", SET, ".">>,
              "deck", "score", None, "1"),
       Branch(60, "hidden", <<PP, "returns", "a", AGE, "from", "his", "hand", "from", SET, ".">>,
              "hand", "deck", "1", None),
       Branch(64, "hidden",
              <<PP, "returns", "a", AGE, "from", "his", "score", "pile", "from", SET, ".">>,
              "score", "deck", "1", None),
       Branch(68, "hidden",
              <<PP, "transfers", "a", AGE, "from", "his", "score", "pile", "to", "his",
                "hand", "from", SET, ".">>,
              "score", "hand", "1", "1"),
       Branch(72, "pass", <<PP, "achieves", "a", AGE, "from", SET, ".">>,
              None, None, None, None),
       Branch(76, "pass", <<PP, "achieves", "[null]", ANY, ".">>,
              None, None, None, None),
       Branch(82, "named", <<PP, "melds", AGE, NAME, "from", "hand", ".">>,
              "hand", "board", "1", "1"),
       Branch(86, "named", <<PP, "tucks", AGE, NAME, "from", "hand", ".">>,
              "hand", "board", "1", "1"),
       Branch(90, "named", <<PP, "draws", "and", "reveals", AGE, NAME, ".">>,
              "deck", "revealed", None, "1"),
       Branch(94, "named", <<PP, "places", AGE, NAME, "in", "hand", ".">>,
              "revealed", "hand", "1", "1"),
       Branch(98, "named", <<PP, "draws", AGE, NAME, ".">>,
              "deck", "hand", None, "1"),
       Branch(102, "named", <<PP, "melds", AGE, NAME, ".">>,
              "revealed", "board", "1", "1"),
       Branch(106, "named", <<PP, "scores", AGE, NAME, "from", "hand", ".">>,
              "hand", "score", "1", "1"),
       Branch(110, "named", <<PP, "scores", AGE, NAME, "from", "board", ".">>,
              "board", "score", "1", "1"),
       Branch(114, "named",
              <<PP, "transfers", AGE, NAME, "from", "hand", "to", PP, "'s", "hand", ".">>,
              "hand", "hand", "1", "4"),
       Branch(118, "named",
              <<PP, "transfers", AGE, NAME, "from", "hand", "to", PP, "'s", "score",
                "pile", ".">>,
              "hand", "score", "1", "4"),
       Branch(122, "named", <<PP, "returns", AGE, NAME, "from", "hand", ".">>,
              "hand", "deck", "1", None),
       Branch(126, "named", <<PP, "draws", "and", "scores", AGE, NAME, ".">>,
              "deck", "score", None, "1"),
       Branch(130, "named", <<PP, "draws", "and", "melds", AGE, NAME, ".">>,
              "deck", "board", None, "1"),
       Branch(134, "board", <<PP, "moves", AGE, NAME, "(board", "->", "board)", ".">>,
              "board", "board", None, None) >>

RevealPattern == <<PP, "reveals", "his", "hand:", REST, ".">>

Entry(type, msg) == [type |-> type, msg |-> msg]

\* What _process_entry does with an entry: the GameState call it makes, or
\* "return" if it makes none, or "raise" with the exception.
Call(op, action, player, card_indices, error) ==
    [op |-> op, action |-> action, player |-> player,
     card_indices |-> card_indices, error |-> error]

\* An else branch that drops the entry.
Unrecognized_dropped(msg) == ""

\* The else branch of _process_entry: the exception it raises.
Unrecognized(msg) == "ValueError: Unrecognized transfer pattern: " \o msg

\* m.group(2).split(", ")
RECURSIVE Split(_)
Split(words) ==
    IF \A k \in DOMAIN words : words[k] # ","
    THEN <<words>>
    ELSE LET k == CHOOSE j \in DOMAIN words :
                      words[j] = "," /\ \A i \in 1..(j - 1) : words[i] # ","
         IN <<SubSeq(words, 1, k - 1)>> \o Split(SubSeq(words, k + 1, Len(words)))

\* The player group n of the match gives, None if the Action has no player.
PlayerOf(pattern, msg, n) ==
    IF n = None THEN None ELSE m_group(pattern, msg, IF n = "1" THEN 1 ELSE 4)[1]

_process_entry(gs, entry) ==
    LET msg == entry.msg
        matching == {k \in DOMAIN Patterns : Matches(Patterns[k].pattern, msg)}
    IN
    IF entry.type = "logWithCardTooltips"
    THEN IF Matches(RevealPattern, msg)
         THEN IF \E k \in DOMAIN Split(m_group(RevealPattern, msg, 2)) :
                     Len(Split(m_group(RevealPattern, msg, 2))[k]) < 2
              THEN Call("raise", NoAction, None, <<>>, "ValueError")
              ELSE Call("reveal_hand", NoAction, m_group(RevealPattern, msg, 1)[1],
                        LET parts == Split(m_group(RevealPattern, msg, 2))
                        IN [k \in DOMAIN parts |-> NameLower(Tail(parts[k]))], "")
         ELSE Call("return", NoAction, None, <<>>, "")
    ELSE IF entry.type # "transfer" THEN Call("return", NoAction, None, <<>>, "")
    ELSE IF matching = {}
    THEN Call("raise", NoAction, None, <<>>, Unrecognized(Join(msg)))
    ELSE LET first == CHOOSE k \in matching : \A j \in matching : k <= j
             b == Patterns[first]
         IN CASE b.kind = "pass" -> Call("return", NoAction, None, <<>>, "")
              [] b.kind = "hidden" ->
                   Call("move",
                        Action(b.source, b.dest, None,
                               <<CHOOSE age \in 0..MaxLoggedAge :
                                     AgeWord(age) = m_group(b.pattern, msg, 2)[1],
                                 LABEL_TO_SET[m_group(b.pattern, msg, 3)[1]]>>,
                               PlayerOf(b.pattern, msg, b.sp),
                               PlayerOf(b.pattern, msg, b.dp)),
                        None, <<>>, "")
              [] b.kind = "named" ->
                   Call("move",
                        Action(b.source, b.dest, NameLower(m_group(b.pattern, msg, 3)),
                               NoGroupKey,
                               PlayerOf(b.pattern, msg, b.sp),
                               PlayerOf(b.pattern, msg, b.dp)),
                        None, <<>>, "")
              [] b.kind = "board" ->
                   Call("move",
                        BoardToBoardAction(gs, m_group(b.pattern, msg, 1)[1],
                                           NameLower(m_group(b.pattern, msg, 3))),
                        None, <<>>, "")

\* The message the game writes for a branch: the player it names, the age
\* and the set of the card or the card's name, the other player where the
\* branch has a second player group.
Written(pattern, p, name) ==
    [k \in DOMAIN pattern |->
        CASE pattern[k] = PP -> IF k = 1 THEN p ELSE OtherPlayer(p)
          [] pattern[k] = AGE -> AgeWord(db_group_key(name)[1])
          [] pattern[k] = SET -> CHOOSE l \in DOMAIN LABEL_TO_SET :
                                     LABEL_TO_SET[l] = db_group_key(name)[2]
          [] pattern[k] = NAME -> display_name(name)
          [] OTHER -> pattern[k]]

\* The cards of "P reveals his hand: 1 Oars, 1 Masonry."
RECURSIVE Listed(_)
Listed(card_indices) ==
    IF card_indices = <<>> THEN <<>>
    ELSE <<ToString(db_group_key(card_indices[1])[1]), display_name(card_indices[1])>>
         \o (IF Len(card_indices) = 1 THEN <<>> ELSE <<",">>)
         \o Listed(Tail(card_indices))

(***************************************************************************)
(* The log as the entries process_log reads: the entries the real game     *)
(* writes for its moves, a draw from a stack that holds no card, and       *)
(* entries that move no card: transfer messages of no recognized shape,    *)
(* messages _process_entry passes over, and a message that names no card   *)
(* of the database.                                                        *)
(***************************************************************************)
DeckShapes == {s \in HiddenShapes \cup NamedShapes : s.source = "deck"}

\* The identities of age MaxEmptyAge or less whose deck stack is empty.
EmptyStackNames ==
    {n \in IndexNames : db_group_key(n)[1] <= MaxEmptyAge /\ decks[db_group_key(n)] = <<>>}

EmptyDeckDrawEvent ==
    /\ Live(MaxMoves)
    /\ \E shape \in DeckShapes, p \in Players, name \in EmptyStackNames :
          DoMove(ShapeAction(shape, p, name))
    /\ UNCHANGED truth

\* A transfer entry about a card that truly moves from a zone to a zone.
TransferEntryEvent ==
    /\ Live(MaxMoves)
    /\ \E k \in DOMAIN Patterns, p \in Players :
         LET b == Patterns[k]
             source_player == IF b.sp = None THEN None ELSE p
             dest_player == CASE b.dp = None -> None
                              [] b.dp = "1" -> p
                              [] b.dp = "4" -> OtherPlayer(p)
         IN /\ b.kind \in {"hidden", "named"}
            /\ \E name \in TrueSource(b.source, source_player) :
                 LET call == _process_entry(GS, Entry("transfer",
                                                      Written(b.pattern, p, name)))
                 IN /\ truth' = TruthMove(truth, b.source, source_player,
                                          b.dest, dest_player, name)
                    /\ call.op = "move"
                    /\ DoMove(call.action)

\* A board -> board entry: the card truly goes from its holder's board to
\* the other player's; the message may name either player.
BoardToBoardEntryEvent ==
    /\ Live(MaxMoves)
    /\ \E k \in DOMAIN Patterns, holder \in Players, named_player \in Players :
         /\ Patterns[k].kind = "board"
         /\ \E name \in truth.boards[holder] :
              LET call == _process_entry(GS, Entry("transfer",
                                Written(Patterns[k].pattern, named_player, name)))
              IN /\ truth' = TruthMove(truth, "board", holder,
                                       "board", OtherPlayer(holder), name)
                 /\ call.op = "move"
                 /\ DoMove(call.action)

\* A "reveals his hand" entry that lists the player's true hand.
RevealEntryEvent ==
    /\ Live(MaxMoves)
    /\ \E p \in Players :
         /\ truth.hands[p] # {}
         /\ Cardinality(truth.hands[p]) <= MaxReveal
         /\ \E listed \in Orders(truth.hands[p]) :
              LET call == _process_entry(GS, Entry("logWithCardTooltips",
                                   <<p, "reveals", "his", "hand:">> \o Listed(listed)
                                       \o <<".">>))
              IN /\ call.op = "reveal_hand"
                 /\ DoRevealHand(call.player, call.card_indices)

\* Entries at which no card moves in the real game.
OtherEntries ==
    { \* of no recognized shape
      Entry("transfer", <<"Opp", "draws", "a", "card", ".">>),
      Entry("transfer", <<"Opp", "draws", "and", "tucks", "[1]", "Pottery", ".">>),
      Entry("transfer", <<"Me", "scores", "[1]", "Archery", "from", "score", "pile", ".">>),
      Entry("transfer", <<"Opp", "draws", "a", "[1]", "from", "echoes", ".">>),
      \* matched by the branch of line 102, which looks up a card of that name
      Entry("transfer", <<"Me", "melds", "[1]", "Archery", "from", "score", "pile", ".">>),
      \* achievements, passed over
      Entry("transfer", <<"Opp", "achieves", "a", "[1]", "from", "base", ".">>),
      Entry("transfer", <<"Me", "achieves", "[null]", "Legend", ".">>),
      \* not a transfer
      Entry("log", <<"Opp", "draws", "a", "card", ".">>),
      Entry("logWithCardTooltips", <<"Opp", "draws", "a", "card", ".">>),
      \* a revealed hand that names no card of the database
      Entry("logWithCardTooltips", <<"Me", "reveals", "his", "hand:", "1", "Foo", ".">>) }

\* An entry at which no card moves in the real game: the GameState call
\* _process_entry makes for it, if any, and what the call leaves.
OtherEntryEvent ==
    /\ Live(MaxMoves)
    /\ \E entry \in OtherEntries :
         LET call == _process_entry(GS, entry) IN
         \E out \in CASE call.op = "move" -> move(GS, call.action)
                       [] call.op = "reveal_hand" ->
                            reveal_hand(GS, call.player, call.card_indices)
                       [] call.op = "return" -> {Outcome("", GS, 0, NoEffects)}
                       [] call.op = "raise" -> {Outcome(call.error, GS, 0, NoEffects)} :
            /\ Install(out.gs)
            /\ err' = out.error
            /\ last' = [op |-> "_process_entry", type |-> entry.type,
                        words |-> entry.msg, msg |-> Join(entry.msg),
                        action |-> call.action, card |-> out.card,
                        player |-> call.player, card_indices |-> call.card_indices,
                        effects |-> out.effects]
            /\ boarded' = IF out.error = "" /\ call.op = "move"
                             /\ call.action.dest = "board"
                          THEN boarded \cup {out.card} ELSE boarded
    /\ steps' = steps + 1
    /\ UNCHANGED <<truth, propagating>>

NextMalformed ==
    \/ TransferEntryEvent
    \/ BoardToBoardEntryEvent
    \/ RevealEntryEvent
    \/ EmptyDeckDrawEvent
    \/ OtherEntryEvent

SpecMalformed == Init /\ [][NextMalformed]_vars

\* A long stretch of the log in which only the opponent plays: anonymous
\* draws and returns, draws that name the card, draws that meld the card, and
\* cards handed over from the opponent's hand to the other player's.
OppMeldShapes ==
    {s \in NamedShapes :
        (s.source = "deck" /\ s.dest \in {"hand", "board"})
            \/ (s.source = "hand" /\ s.dest = "hand")}

OppDrawHiddenEvent ==
    /\ Live(MaxOppMeldMoves)
    /\ Transfer(DrawShapes(HiddenShapes), {OPP})
    /\ FirstAgeOnly'

OppMeldNamedEvent ==
    /\ Live(MaxOppMeldMoves)
    /\ Transfer(OppMeldShapes, {OPP})
    /\ FirstAgeOnly'

NextOppMeld ==
    \/ OppDrawHiddenEvent
    \/ OppMeldNamedEvent

SpecOppMeld == Init /\ [][NextOppMeld]_vars

\* A log that opens with five entries of the opponent (scores archery from
\* hand, draws and scores agriculture, moves a card from the score pile to the
\* hand, returns a card, draws agriculture) and goes on with a few entries of
\* any kind below. The name of an anonymous entry is the card that truly
\* moves.
LogEntry(shape, p, name) == [shape |-> shape, player |-> p, name |-> name]

OpeningLog ==
    << LogEntry(Shape("hand", "score", TRUE, "self", "self"), OPP, "archery"),
       LogEntry(Shape("deck", "score", TRUE, None, "self"), OPP, "agriculture"),
       LogEntry(Shape("score", "hand", FALSE, "self", "self"), OPP, "agriculture"),
       LogEntry(Shape("hand", "deck", FALSE, "self", None), OPP, "agriculture"),
       LogEntry(Shape("deck", "hand", TRUE, None, "self"), OPP, "agriculture") >>

OpeningEvent ==
    /\ err = ""
    /\ steps < Len(OpeningLog)
    /\ LET e == OpeningLog[steps + 1] IN
          /\ e.name \in TrueSource(e.shape.source, Who(e.shape.sp, e.player))
          /\ truth' = TruthMove(truth, e.shape.source, Who(e.shape.sp, e.player),
                                e.shape.dest, Who(e.shape.dp, e.player), e.name)
          /\ DoMove(ShapeAction(e.shape, e.player, e.name))

\* The log is past its opening and goes on for MaxLateMoves entries at most.
Late == steps >= Len(OpeningLog) /\ Live(Len(OpeningLog) + MaxLateMoves)

\* The opponent moves a card between decks, hands and score piles.
LateOppEvent ==
    /\ Late
    /\ Transfer(PrivateShapes(HiddenShapes \cup NamedShapes), {OPP})
    /\ FirstAgeOnly'

\* The perspective player draws or returns a card anonymously.
LateMeHiddenEvent ==
    /\ Late
    /\ Transfer(DrawShapes(HiddenShapes), {ME})
    /\ FirstAgeOnly'

\* The perspective player reveals the hand.
LateMeRevealHandEvent == Late /\ RevealHand({ME})

NextAfterOpening ==
    \/ OpeningEvent
    \/ LateOppEvent
    \/ LateMeHiddenEvent
    \/ LateMeRevealHandEvent

SpecAfterOpening == Init /\ [][NextAfterOpening]_vars

(***************************************************************************)
(* _propagate on its own: a call on the age-1 base group of a GameState    *)
(* whose cards hold one of a bounded set of assignments of their fields,   *)
(* one pass of the while loop per step. Every assignment is consistent     *)
(* with the deal: each card admits its own identity.                       *)
(***************************************************************************)
PropagatedGroup == <<1, SET_BASE>>

\* The identity of the card d places after the card in the group's list,
\* cyclically.
Neighbour(id, d) ==
    LET group == _groups[PropagatedGroup]
        k == CHOOSE j \in DOMAIN group : group[j] = id
    IN IdentityAtSetup(group[((k - 1 + d + Len(group)) % Len(group)) + 1])

Offsets == (-MaxDistance..MaxDistance) \ {0}

\* The cards with the fields of the group's cards replaced by field(id).
WithGroupCards(field(_)) ==
    [id \in CardIds |->
        IF id \in GroupCards(PropagatedGroup) THEN field(id) ELSE init_game.cards[id]]

\* Candidates only: each card admits its identity and any of the identities
\* at most MaxDistance places away; the opponent knows nothing.
CandidateInputs ==
    { WithGroupCards(LAMBDA id :
          Card(PropagatedGroup[1], PropagatedGroup[2],
               {IdentityAtSetup(id)} \cup {Neighbour(id, d) : d \in near[id]}))
      : near \in [GroupCards(PropagatedGroup) -> SUBSET Offsets] }

\* The opponent-knowledge fields of a card: public, or an explicit list of
\* two suspects.
Knowledge(id, kind) ==
    CASE kind = "public" -> [knows |-> TRUE, suspects |-> {IdentityAtSetup(id)},
                             explicit |-> TRUE]
      [] kind = "explicit" -> [knows |-> FALSE,
                               suspects |-> {IdentityAtSetup(id), Neighbour(id, 1)},
                               explicit |-> TRUE]

\* Candidates and opponent knowledge: each card is resolved or also admits
\* the next identity, with either kind of opponent knowledge.
KnowledgeInputs ==
    { WithGroupCards(LAMBDA id :
          [ Card(PropagatedGroup[1], PropagatedGroup[2],
                 {IdentityAtSetup(id)} \cup {Neighbour(id, d) : d \in pick[id][1]})
            EXCEPT !.opponent_knows_exact = Knowledge(id, pick[id][2]).knows,
                   !.opponent_might_suspect = Knowledge(id, pick[id][2]).suspects,
                   !.suspect_list_explicit = Knowledge(id, pick[id][2]).explicit ])
      : pick \in [GroupCards(PropagatedGroup) ->
                     (SUBSET {1}) \X {"public", "explicit"}] }

\* _propagate(group_key) is called on a GameState whose cards hold one of
\* the assignments: changed = True, no pass run yet.
CallPropagate ==
    /\ last.op = "init_game"
    /\ cards' \in CandidateInputs \cup KnowledgeInputs
    /\ propagating' = TRUE
    /\ last' = Last("_propagate",
                    Action(None, None, None, PropagatedGroup, None, None),
                    0, None, <<>>, NoEffects)
    /\ UNCHANGED <<decks, hands, boards, scores, revealed, achievements,
                   truth, err, steps, boarded>>

\* One iteration of the while loop of the running call.
PropagatePassStep ==
    /\ propagating
    /\ steps < MaxPasses
    /\ \E r \in PropagatePass(cards, _groups[PropagatedGroup]) :
          /\ cards' = r.cs
          /\ propagating' = r.changed
    /\ steps' = steps + 1
    /\ UNCHANGED <<decks, hands, boards, scores, revealed, achievements,
                   truth, last, err, boarded>>

NextPropagate ==
    \/ CallPropagate
    \/ PropagatePassStep

SpecPropagate == Init /\ [][NextPropagate]_vars

\* The loop is sequential code: a pass that can run does run. A step of this
\* specification raises steps exactly when it is a pass of the loop, so the
\* fairness condition is that of PropagatePassStep, with the loop condition
\* as its enabling condition.
LoopRuns ==
    /\ propagating
    /\ steps < MaxPasses
    /\ steps' = steps + 1

SpecPropagateFair == SpecPropagate /\ WF_steps(LoopRuns)

(***************************************************************************)
(* The Card objects under a caller of their own: remove_candidates is a    *)
(* public method of Card that neither move nor reveal_hand nor _propagate  *)
(* calls. It changes the one card and nothing else.                        *)
(***************************************************************************)
RemoveCandidatesCall ==
    /\ Live(MaxCardCalls)
    /\ \E id \in CardIds :
         \E names \in SUBSET NamesOf(group_key(cards[id])) :
            LET done == remove_candidates(cards[id], names) IN
            /\ cards' = SetCard(cards, id, done.card)
            /\ last' = [op |-> "remove_candidates", action |-> NoAction, card |-> id,
                        player |-> None, card_indices |-> <<>>, effects |-> NoEffects,
                        names |-> names, returns |-> done.returns]
    /\ steps' = steps + 1
    /\ UNCHANGED <<decks, hands, boards, scores, revealed, achievements,
                   truth, err, boarded, propagating>>

SpecCard == Init /\ [][RemoveCandidatesCall]_vars

(***************************************************************************)
(* Properties                                                              *)
(***************************************************************************)
\* How many slots of the list hold the card.
Count(list, id) == Cardinality({k \in DOMAIN list : list[k] = id})

\* How many slots of the deck stacks of the group keys S hold the card.
RECURSIVE CountInDecks(_, _)
CountInDecks(S, id) ==
    IF S = {} THEN 0
    ELSE LET gk == CHOOSE g \in S : TRUE
         IN Count(decks[gk], id) + CountInDecks(S \ {gk}, id)

\* How many slots of the zones of the players S hold the card.
RECURSIVE CountAtPlayers(_, _)
CountAtPlayers(S, id) ==
    IF S = {} THEN 0
    ELSE LET p == CHOOSE q \in S : TRUE
         IN Count(hands[p], id) + Count(boards[p], id) + Count(scores[p], id)
            + Count(revealed[p], id) + CountAtPlayers(S \ {p}, id)

\* In how many zone slots the card is.
Occurrences(id) ==
    CountInDecks(GroupKeys, id) + CountAtPlayers(Players, id) + Count(achievements, id)

\* There is a one-to-one assignment of the names N to the cards C that gives
\* every card a name among its candidates.
RECURSIVE Matching(_, _)
Matching(C, N) ==
    IF C = {} THEN N = {}
    ELSE LET c == CHOOSE x \in C : TRUE
         IN \E n \in N \cap cards[c].candidates : Matching(C \ {c}, N \ {n})

InGroup(list, gk) == {o \in Range(list) : group_key(cards[o]) = gk}

\* The cards of a deck or of the achievements admit, position by position,
\* the identities truly there.
AgreesInOrder(list, names) ==
    /\ Len(list) = Len(names)
    /\ \A k \in DOMAIN list : names[k] \in cards[list[k]].candidates

\* The cards of the group in a hand, board, score pile or revealed area can
\* be matched with the group's identities truly there.
AgreesAsSet(list, names, gk) == Matching(InGroup(list, gk), names \cap NamesOf(gk))

\* The tracked state agrees with the real game: one assignment of identities
\* to cards fits every zone and every candidate set.
Sound ==
    /\ \A gk \in GroupKeys :
          /\ AgreesInOrder(decks[gk], truth.decks[gk])
          /\ \A p \in Players :
                /\ AgreesAsSet(hands[p], truth.hands[p], gk)
                /\ AgreesAsSet(boards[p], truth.boards[p], gk)
                /\ AgreesAsSet(scores[p], truth.scores[p], gk)
                /\ AgreesAsSet(revealed[p], truth.revealed[p], gk)
    /\ AgreesInOrder(achievements, truth.achievements)

\* C1: after every move and every reveal_hand of a truthful event stream,
\* there is a one-to-one assignment of identities to the tracked cards that
\* agrees with the true contents of every zone and gives every card an
\* identity among its candidates.
C1_SoundCandidates == Sound

\* C2: in every state reachable from init_game by move and reveal_hand calls,
\* every card has at least one candidate.
C2_CandidatesNeverEmpty == \A id \in CardIds : cards[id].candidates # {}

\* C3: in every reachable state, the cards of every group can be matched
\* one-to-one with the names of the group, each card with one of its
\* candidates.
C3_GroupSatisfiable == \A gk \in GroupKeys : Matching(GroupCards(gk), NamesOf(gk))

\* C4: after init_game and after every move and reveal_hand, every card
\* created at setup is in exactly one zone slot.
C4_ExactlyOneZone == \A id \in CardIds : Occurrences(id) = 1

\* The last call was a move that returned.
Moved == last.op = "move" /\ err = ""

\* C5: when a move that names an identity n returns, the moved card has
\* candidates {n}.
C5_NamedMoveResolves ==
    (Moved /\ last.action.card_index # None)
        => cards[last.card].candidates = {last.action.card_index}

\* The cards of the group that a list holds, for a hand or score pile given
\* as the two containers.
PrivateZoneGroup(h, s, loc_type, player, gk, cs) ==
    {o \in Range(IF loc_type = "hand" THEN h[player] ELSE s[player]) :
        group_key(cs[o]) = gk}

\* The moved card and the cards of its group left in the source zone, for a
\* step that is a move out of a hand or score pile.
AffectedAfter ==
    {last'.card} \cup PrivateZoneGroup(hands', scores', last'.action.source,
                                       last'.action.source_player,
                                       group_key(cards[last'.card]), cards)

UnionOf(S, f(_)) == UNION {f(o) : o \in S}

\* This step is a move that returned.
MoveStep == last'.op = "move" /\ err' = ""

\* C6: after an anonymous move out of a hand or score pile, the moved card
\* and every card of the group still in the source zone have the union of the
\* candidates those cards had just before the move.
C6_AnonymousMoveMerges ==
    [][ (/\ MoveStep
         /\ last'.action.card_index = None
         /\ last'.action.source \in {"hand", "score"})
        => \A o \in AffectedAfter :
              cards'[o].candidates
                  = UnionOf(AffectedAfter, LAMBDA x : cards[x].candidates) ]_vars

\* This step is a move of the perspective player out of their hand or score
\* pile into a deck or their own hand or score pile that leaves a card of the
\* group behind.
PrivateMoveStep ==
    /\ MoveStep
    /\ last'.action.source \in {"hand", "score"}
    /\ last'.action.source_player = perspective
    /\ \/ last'.action.dest = "deck"
       \/ /\ last'.action.dest \in {"hand", "score"}
          /\ last'.action.dest_player = perspective
    /\ AffectedAfter # {last'.card}

\* C7: after such a move the moved card and every card of the group left in
\* the source zone have opponent_knows_exact false, the union of the suspect
\* sets they had before the move, and suspect_list_explicit true exactly when
\* it was true for every one of them before the move.
C7_PrivateMoveMergesSuspects ==
    [][ PrivateMoveStep
        => \A o \in AffectedAfter :
              /\ ~cards'[o].opponent_knows_exact
              /\ cards'[o].opponent_might_suspect
                    = UnionOf(AffectedAfter, LAMBDA x : cards[x].opponent_might_suspect)
              /\ cards'[o].suspect_list_explicit
                    = (\A x \in AffectedAfter : cards[x].suspect_list_explicit) ]_vars

\* The action puts the card where both players see it.
VisibleToBoth(action) ==
    \/ action.dest \in {"board", "revealed"}
    \/ /\ action.source_player # None
       /\ action.dest_player # None
       /\ action.source_player # action.dest_player

\* C8: after a move to a board or the revealed area, or from one player to
\* another, the moved card is known to the opponent, suspected to be exactly
\* its resolved identity, with an explicit suspect list.
C8_PublicMoveMarksPublic ==
    (Moved /\ VisibleToBoth(last.action))
        => /\ cards[last.card].opponent_knows_exact
           /\ is_resolved(cards[last.card])
           /\ cards[last.card].opponent_might_suspect = cards[last.card].candidates
           /\ cards[last.card].suspect_list_explicit

\* This step is a move into the hand or score pile of a player other than the
\* perspective player that is not a transfer between two players.
OpponentPrivateStep ==
    /\ MoveStep
    /\ last'.action.dest \in {"hand", "score"}
    /\ last'.action.dest_player # perspective
    /\ ~VisibleToBoth(last'.action)

\* C9: after such a move the moved card has opponent_knows_exact true and the
\* opponent_might_suspect and suspect_list_explicit it had before the move.
C9_OpponentPrivateKeepsSuspects ==
    [][ OpponentPrivateStep
        => /\ cards'[last'.card].opponent_knows_exact
           /\ cards'[last'.card].opponent_might_suspect
                 = cards[last'.card].opponent_might_suspect
           /\ cards'[last'.card].suspect_list_explicit
                 = cards[last'.card].suspect_list_explicit ]_vars

\* The card states that the resolve-and-propagate step of this step's move
\* hands to the merging steps: the cards as they were if the move is
\* anonymous or its card was already resolved.
Resolves == last'.action.card_index # None /\ ~is_resolved(cards[last'.card])

Resolved == SetCard(cards, last'.card, resolve(cards[last'.card], last'.action.card_index))

AfterResolve ==
    IF Resolves THEN _propagate(Resolved, db_group_key(last'.action.card_index))
    ELSE {cards}

\* C7 (amended): after such a move the moved card and every card of the group
\* left in the source zone have opponent_knows_exact false, the union of the
\* suspect sets they had once the named identity was resolved and propagated
\* (the sets they had before the move when the move is anonymous or its card
\* was already resolved), and suspect_list_explicit true exactly when it was
\* true for every one of them before the move.
C7_PrivateMoveMergesSuspectsAfterResolve ==
    [][ PrivateMoveStep
        => \E mid \in AfterResolve :
              \A o \in AffectedAfter :
                 /\ ~cards'[o].opponent_knows_exact
                 /\ cards'[o].opponent_might_suspect
                       = UnionOf(AffectedAfter, LAMBDA x : mid[x].opponent_might_suspect)
                 /\ cards'[o].opponent_might_suspect
                       \subseteq UnionOf(AffectedAfter,
                                         LAMBDA x : cards[x].opponent_might_suspect)
                 /\ cards'[o].suspect_list_explicit
                       = (\A x \in AffectedAfter : cards[x].suspect_list_explicit) ]_vars

\* The last call was such a move, and it merged suspect sets that were not
\* all empty.
C7_Witness ==
    /\ Moved
    /\ last.action.source \in {"hand", "score"}
    /\ last.action.source_player = perspective
    /\ last.action.dest \in {"deck", "hand", "score"}
    /\ last.action.dest_player \in {None, perspective}
    /\ ~cards[last.card].opponent_knows_exact
    /\ cards[last.card].opponent_might_suspect # {}
    /\ \E o \in PrivateZoneGroup(hands, scores, last.action.source,
                                 last.action.source_player,
                                 group_key(cards[last.card]), cards) :
          /\ cards[o].opponent_might_suspect = cards[last.card].opponent_might_suspect
          /\ Cardinality(cards[o].opponent_might_suspect) = 2

\* C9 (amended): after such a move the moved card has opponent_knows_exact
\* true, the suspect_list_explicit it had before the move, and the
\* opponent_might_suspect it had once the named identity was resolved and
\* propagated (the one it had before the move when the move is anonymous or
\* its card was already resolved).
C9_OpponentPrivateKeepsSuspectsAfterResolve ==
    [][ OpponentPrivateStep
        => /\ cards'[last'.card].opponent_knows_exact
           /\ \E mid \in AfterResolve :
                 cards'[last'.card].opponent_might_suspect
                     = mid[last'.card].opponent_might_suspect
           /\ cards'[last'.card].opponent_might_suspect
                 \subseteq cards[last'.card].opponent_might_suspect
           /\ ~Resolves => cards'[last'.card].opponent_might_suspect
                              = cards[last'.card].opponent_might_suspect
           /\ cards'[last'.card].suspect_list_explicit
                 = cards[last'.card].suspect_list_explicit ]_vars

\* The last call was such a move, of a card that kept a suspect set.
C9_Witness ==
    /\ Moved
    /\ last.action.dest \in {"hand", "score"}
    /\ last.action.dest_player # perspective
    /\ ~VisibleToBoth(last.action)
    /\ cards[last.card].opponent_knows_exact
    /\ cards[last.card].opponent_might_suspect # {}

\* The last call was a move that returned and left the card in the zone it
\* names, and nowhere else.
C4_Witness ==
    /\ Moved
    /\ last.action.source = "hand"
    /\ last.action.dest = "score"
    /\ last.card \in Range(scores[last.action.dest_player])
    /\ Occurrences(last.card) = 1

\* The last call was an anonymous move out of a hand or score pile that left
\* the moved card and a card of its group in the source zone with the same two
\* candidates.
C6_Witness ==
    /\ Moved
    /\ last.action.card_index = None
    /\ last.action.source \in {"hand", "score"}
    /\ Cardinality(cards[last.card].candidates) = 2
    /\ \E o \in PrivateZoneGroup(hands, scores, last.action.source,
                                 last.action.source_player,
                                 group_key(cards[last.card]), cards) :
          cards[o].candidates = cards[last.card].candidates

\* What suspect elimination leaves of a group: no card suspected to be a card
\* the opponent knows, and every card with an explicit suspect list that it
\* cut down to one name known to the opponent.
SuspectsEliminated(before, after, group) ==
    /\ \A c, o \in Range(group) :
          (c # o /\ after[c].opponent_knows_exact /\ is_resolved(after[c]))
              => card_index(after[c]) \notin after[o].opponent_might_suspect
    /\ \A o \in Range(group) :
          (/\ after[o].suspect_list_explicit
           /\ after[o].opponent_might_suspect # before[o].opponent_might_suspect
           /\ Cardinality(after[o].opponent_might_suspect) = 1)
              => after[o].opponent_knows_exact

\* C10: when propagation runs for a group, the identity of every resolved
\* card that the opponent knows is removed from the suspect set of every
\* other card of the group, and every card with an explicit suspect list that
\* is thereby left with one suspect becomes known to the opponent.
C10_SuspectElimination ==
    [][ /\ (MoveStep /\ Resolves)
           => \A after \in AfterResolve :
                 SuspectsEliminated(Resolved, after,
                                    _groups[db_group_key(last'.action.card_index)])
        /\ (last'.op = "reveal_hand" /\ err' = "")
           => LET n == last'.card_indices[Len(last'.card_indices)]
              IN SuspectsEliminated(cards, cards', _groups[db_group_key(n)]) ]_vars

\* The last call was a move whose propagation removed a suspect from a card
\* with an explicit suspect list and thereby made it known to the opponent.
C10_Witness ==
    /\ Moved
    /\ last.action.card_index # None
    /\ last.effects.deduced \cap last.effects.eliminated # {}

\* reveal_hand has just returned without raising.
Revealed == last.op = "reveal_hand" /\ err = ""

\* The cards of the player's hand that are resolved to the name and fully
\* public: known exactly, suspected to be that name only, explicit list.
PublicAs(player, name) ==
    {o \in Range(hands[player]) :
        /\ cards[o].candidates = {name}
        /\ cards[o].opponent_knows_exact
        /\ cards[o].opponent_might_suspect = {name}
        /\ cards[o].suspect_list_explicit}

\* C11: after reveal_hand(player, names) has returned, every listed name has
\* a card in that player's hand resolved to it and fully public, and distinct
\* names are carried by distinct cards.
C11_RevealHandMarksPublic ==
    Revealed =>
        /\ \A k \in DOMAIN last.card_indices :
              PublicAs(last.player, last.card_indices[k]) # {}
        /\ \A j, k \in DOMAIN last.card_indices :
              last.card_indices[j] # last.card_indices[k] =>
                  PublicAs(last.player, last.card_indices[j])
                      \cap PublicAs(last.player, last.card_indices[k]) = {}

\* The collection of card states a zone holds: how many cards of the list
\* are in each state.
ZoneStates(cs, list) ==
    [st \in {cs[list[k]] : k \in DOMAIN list} |->
        Cardinality({k \in DOMAIN list : cs[list[k]] = st})]

\* The collection of card states of every zone of the GameState.
AllZoneStates(gs) ==
    [ decks |-> [gk \in GroupKeys |-> ZoneStates(gs.cards, gs.decks[gk])],
      hands |-> [p \in Players |-> ZoneStates(gs.cards, gs.hands[p])],
      boards |-> [p \in Players |-> ZoneStates(gs.cards, gs.boards[p])],
      scores |-> [p \in Players |-> ZoneStates(gs.cards, gs.scores[p])],
      revealed |-> [p \in Players |-> ZoneStates(gs.cards, gs.revealed[p])],
      achievements |-> ZoneStates(gs.cards, gs.achievements) ]

\* What reveal_hand(player, card_indices) can do from the current state:
\* fail, or leave the zones with some collection of card states.
RevealResults(player, card_indices) ==
    { IF out.error # "" THEN [failed |-> TRUE, zones |-> <<>>]
      ELSE [failed |-> FALSE, zones |-> AllZoneStates(out.gs)]
      : out \in reveal_hand(GS, player, card_indices) }

\* The players whose hand a "reveals his hand" message can list now.
Revealable ==
    IF err = ""
    THEN {p \in Players : truth.hands[p] # {} /\ Cardinality(truth.hands[p]) <= MaxReveal}
    ELSE {}

\* C12: the outcome of reveal_hand does not depend on the order of the names:
\* any two orderings of the names of a hand either both fail or both succeed
\* and leave every zone with the same collection of card states.
C12_RevealOrderIndependent ==
    \A p \in Revealable :
        \A o1, o2 \in Orders(truth.hands[p]) :
            RevealResults(p, o1) = RevealResults(p, o2)

\* C13: once a move has placed a card on a board, the card has
\* opponent_knows_exact true in every later state, also after it has left
\* the board.
C13_BoardPublicityPermanent ==
    \A o \in boarded : cards[o].opponent_knows_exact

\* The cards to which this step applies a suspect merge.
SuspectMerged == IF PrivateMoveStep THEN AffectedAfter ELSE {}

\* C13 (amended): a card has opponent_knows_exact true right after the move
\* that places it on a board, and a card once placed on a board keeps
\* opponent_knows_exact true through every step that does not apply a suspect
\* merge to it (a move of the perspective player out of the hand or score
\* pile that holds the card, into a deck or their own hand or score pile).
C13_BoardPublicityUntilMerge ==
    [][ \A o \in boarded' :
           ((o \in boarded => cards[o].opponent_knows_exact) /\ o \notin SuspectMerged)
               => cards'[o].opponent_knows_exact ]_vars

\* A card that was placed on a board has left it for the perspective
\* player's hand, and the last move took another card out of that hand
\* without a suspect merge: the card is still known to the opponent.
C13_Witness ==
    /\ Moved
    /\ last.action.source = "hand"
    /\ last.action.source_player = perspective
    /\ \E o \in boarded :
          /\ o # last.card
          /\ o \in Range(hands[perspective])
          /\ cards[o].opponent_knows_exact

\* The cards that lie on a board.
OnBoard == UNION {Range(boards[p]) : p \in Players}

\* C14: every card in a board zone is resolved.
C14_BoardCardsResolved ==
    \A o \in OnBoard : is_resolved(cards[o])

\* The opponent's suspect set of the card is exactly its resolved identity.
SuspectsIdentity(c) ==
    is_resolved(c) /\ c.opponent_might_suspect = c.candidates

\* C15: a card that is resolved and has opponent_knows_exact true has
\* opponent_might_suspect equal to the one-element set of its identity.
C15_KnownExactSuspectsIdentity ==
    \A o \in CardIds :
        (is_resolved(cards[o]) /\ cards[o].opponent_knows_exact)
            => SuspectsIdentity(cards[o])

\* C15 (amended): the implication holds for the card a move has just shown
\* to both players, if that card is resolved when the move returns: it has
\* opponent_knows_exact true and opponent_might_suspect equal to the
\* one-element set of its identity.
C15_ShownCardSuspectsIdentity ==
    (Moved /\ VisibleToBoth(last.action) /\ is_resolved(cards[last.card]))
        => /\ cards[last.card].opponent_knows_exact
           /\ SuspectsIdentity(cards[last.card])

\* A card drawn from a deck and melded is resolved, known to the opponent
\* and suspected to be exactly its identity, while a resolved card in the
\* opponent's hand is known to the opponent with no suspect recorded.
C15_Witness ==
    /\ Moved
    /\ last.action.source = "deck"
    /\ last.action.dest = "board"
    /\ cards[last.card].opponent_knows_exact
    /\ SuspectsIdentity(cards[last.card])
    /\ \E o \in Range(hands[OPP]) :
          /\ is_resolved(cards[o])
          /\ cards[o].opponent_knows_exact
          /\ cards[o].opponent_might_suspect = {}

\* The cards in the hand or score pile of a player other than the
\* perspective player.
OpponentHeld ==
    UNION {Range(hands[p]) \cup Range(scores[p]) : p \in Players \ {perspective}}

\* C16: in every state from init_game on, every card in the hand or score
\* pile of a player other than the perspective player has
\* opponent_knows_exact true.
C16_OpponentCardsKnown ==
    \A o \in OpponentHeld : cards[o].opponent_knows_exact

\* C17: for every card, the size of its candidates set never increases from
\* one state to the next.
C17_CandidatesNeverGrow ==
    [][ \A o \in CardIds :
           Cardinality(cards'[o].candidates) <= Cardinality(cards[o].candidates) ]_vars

\* The cards to which this step applies a candidate merge: the moved card and
\* the cards of its group left in the source zone, when the step is an
\* anonymous move out of a hand or score pile.
CandidateMerged ==
    IF /\ MoveStep
       /\ last'.action.card_index = None
       /\ last'.action.source \in {"hand", "score"}
    THEN AffectedAfter
    ELSE {}

\* This step is a named move that takes the card from a deck: the top card,
\* whatever its candidates.
NamedDrawStep ==
    /\ MoveStep
    /\ last'.action.source = "deck"
    /\ last'.action.card_index # None

\* C17 (amended): over a move or reveal_hand the candidates of a card do not
\* grow in number, except for the cards to which the step applies a candidate
\* merge (they get the union of their candidates, see C6) and for a card
\* without candidates that a named move takes from the top of a deck, which
\* gets the name as its one candidate.
C17_CandidatesGrowByMergeOrFromNone ==
    [][ \A o \in CardIds \ CandidateMerged :
           \/ Cardinality(cards'[o].candidates) <= Cardinality(cards[o].candidates)
           \/ /\ NamedDrawStep
              /\ o = last'.card
              /\ cards[o].candidates = {}
              /\ cards'[o].candidates = {last'.action.card_index} ]_vars

\* A named draw has taken from the top of a deck a card that had no
\* candidates, after a return that merged nothing, and has left it resolved
\* to the name.
C17_Witness ==
    /\ Moved
    /\ last.action.source = "deck"
    /\ last.action.card_index # None
    /\ last.card \in DOMAIN last.effects.resolved_from
    /\ last.effects.resolved_from[last.card] = {}
    /\ cards[last.card].candidates = {last.action.card_index}

\* C18: for a card whose suspect_list_explicit is true, a move or reveal_hand
\* that does not apply a suspect merge to the card leaves its
\* opponent_might_suspect a subset of what it was.
C18_ExplicitSuspectsShrink ==
    [][ \A o \in CardIds \ SuspectMerged :
           cards[o].suspect_list_explicit
               => cards'[o].opponent_might_suspect
                      \subseteq cards[o].opponent_might_suspect ]_vars

\* The cards this step marks public: the card of a move that both players
\* see, the cards of the hand that a reveal_hand resolves to the names of its
\* list.
MarkedPublic ==
    IF MoveStep /\ VisibleToBoth(last'.action) THEN {last'.card}
    ELSE IF last'.op = "reveal_hand"
    THEN {o \in Range(hands'[last'.player]) :
             \E k \in DOMAIN last'.card_indices :
                 cards'[o].candidates = {last'.card_indices[k]}}
    ELSE {}

\* C18 (amended): for a card whose suspect_list_explicit is true, a move or
\* reveal_hand that neither applies a suspect merge to the card nor marks it
\* public leaves its opponent_might_suspect a subset of what it was.
C18_ExplicitSuspectsShrinkUnlessMarked ==
    [][ \A o \in CardIds \ (SuspectMerged \cup MarkedPublic) :
           cards[o].suspect_list_explicit
               => cards'[o].opponent_might_suspect
                      \subseteq cards[o].opponent_might_suspect ]_vars

\* The last call removed a name from the explicit suspect set of a card it
\* neither moved nor marked public, and left a name in it.
C18_Witness ==
    /\ err = ""
    /\ \E o \in last.effects.eliminated :
          /\ o # last.card
          /\ last.op = "reveal_hand" => o \notin Range(hands[last.player])
          /\ cards[o].suspect_list_explicit
          /\ cards[o].opponent_might_suspect # {}

\* The call of _propagate has returned.
Returned == last.op = "_propagate" /\ ~propagating

\* C19: running _propagate on the group again right after it has returned
\* changes no card.
C19_PropagateIdempotent ==
    Returned => _propagate(cards, PropagatedGroup) = {cards}

\* C20: _propagate terminates: from every assignment of the cards' fields
\* a call reaches a pass that leaves its change flag false.
C20_PropagateTerminates == propagating ~> ~propagating

\* A call that needed three passes has returned.
C20_Witness ==
    /\ Returned
    /\ steps >= 3

\* This step is a named move that resolves its card, which had exactly two
\* candidates, the name among them.
ResolvesPairStep ==
    /\ MoveStep
    /\ Resolves
    /\ Cardinality(cards[last'.card].candidates) = 2
    /\ last'.action.card_index \in cards[last'.card].candidates

\* The other cards of the group that had the same two candidates as the card
\* this step moves.
Twins ==
    {o \in GroupCards(group_key(cards[last'.card])) \ {last'.card} :
        cards[o].candidates = cards[last'.card].candidates}

\* C21: when a named move resolves to X a card with candidates {X, Y}, every
\* other card of the group that had candidates {X, Y} has candidates {Y} when
\* the move returns.
C21_TwinResolved ==
    [][ ResolvesPairStep
        => \A o \in Twins :
              cards'[o].candidates
                  = cards[last'.card].candidates \ {last'.action.card_index} ]_vars

\* This step is a named move out of a hand or score pile.
NamedPrivateSourceStep ==
    /\ MoveStep
    /\ last'.action.card_index # None
    /\ last'.action.source \in {"hand", "score"}

\* C22: a named move out of a hand or score pile merges no candidates: the
\* cards of the moved card's group that remain in the source zone have, when
\* the move returns, the candidates that resolving the named card and
\* propagating left them (the candidates they had before the move when the
\* card was already resolved).
C22_NamedMoveKeepsCandidates ==
    [][ NamedPrivateSourceStep
        => \E mid \in AfterResolve :
              \A o \in AffectedAfter \ {last'.card} :
                  cards'[o].candidates = mid[o].candidates ]_vars

\* The last call was a named move of the perspective player out of their hand
\* into a deck or their own hand or score pile that left in the hand a card
\* of the group: the two cards had their suspect sets merged and have
\* different candidates.
C22_Witness ==
    /\ Moved
    /\ last.action.card_index # None
    /\ last.action.source = "hand"
    /\ last.action.source_player = perspective
    /\ last.action.dest \in {"deck", "hand", "score"}
    /\ last.action.dest_player \in {None, perspective}
    /\ \E o \in PrivateZoneGroup(hands, scores, "hand", perspective,
                                 group_key(cards[last.card]), cards) :
          /\ cards[o].opponent_might_suspect = cards[last.card].opponent_might_suspect
          /\ cards[o].opponent_might_suspect # {}
          /\ ~cards[o].opponent_knows_exact
          /\ cards[o].candidates # cards[last.card].candidates

\* This step is a move from a deck into the perspective player's own hand or
\* score pile.
OwnDrawStep ==
    /\ MoveStep
    /\ last'.action.source = "deck"
    /\ last'.action.dest \in {"hand", "score"}
    /\ last'.action.dest_player = perspective

\* C23: a move from a deck into the perspective player's own hand or score
\* pile does not turn opponent_knows_exact of the moved card from false to
\* true and adds no name to its opponent_might_suspect.
C23_OwnDrawStaysUnknown ==
    [][ OwnDrawStep
        => /\ cards'[last'.card].opponent_knows_exact
                 => cards[last'.card].opponent_knows_exact
           /\ cards'[last'.card].opponent_might_suspect
                 \subseteq cards[last'.card].opponent_might_suspect ]_vars

\* C23 (amended): a move from a deck into the perspective player's own hand
\* or score pile applies no opponent-knowledge update to the moved card: when
\* the move returns the card has the opponent_knows_exact,
\* opponent_might_suspect and suspect_list_explicit that resolving the named
\* identity and propagating left it (the ones it had before the move when the
\* move is anonymous or the card was already resolved), and no name has been
\* added to its opponent_might_suspect.
C23_OwnDrawAddsNoKnowledge ==
    [][ OwnDrawStep
        => /\ \E mid \in AfterResolve :
                 /\ cards'[last'.card].opponent_knows_exact
                       = mid[last'.card].opponent_knows_exact
                 /\ cards'[last'.card].opponent_might_suspect
                       = mid[last'.card].opponent_might_suspect
                 /\ cards'[last'.card].suspect_list_explicit
                       = mid[last'.card].suspect_list_explicit
           /\ cards'[last'.card].opponent_might_suspect
                 \subseteq cards[last'.card].opponent_might_suspect ]_vars

\* The perspective player has drawn by name a card that the opponent had
\* seen in their hand and lost track of: the draw resolved the card, and the
\* opponent still suspects two names and does not know the card.
C23_Witness ==
    /\ Moved
    /\ last.action.source = "deck"
    /\ last.action.dest = "hand"
    /\ last.action.dest_player = perspective
    /\ last.card \in DOMAIN last.effects.resolved_from
    /\ ~cards[last.card].opponent_knows_exact
    /\ cards[last.card].suspect_list_explicit
    /\ Cardinality(cards[last.card].opponent_might_suspect) = 2

\* The slots of the source zone of this step's move whose card admitted the
\* named identity when the move was made.
NamedMatches ==
    LET source_cards == _cards_at(GS, last'.action.source, last'.action.source_player,
                                  MoveGroupKey(last'.action))
    IN {k \in DOMAIN source_cards :
           last'.action.card_index \in cards[source_cards[k]].candidates}

\* The GameState is as it was before this step.
StoreUnchanged ==
    UNCHANGED <<decks, hands, boards, scores, revealed, achievements, cards>>

\* C24: a named move whose non-deck source zone holds no card, or more than
\* one card, that admits the named identity raises an error and leaves the
\* GameState unchanged.
C24_AmbiguousSourceRejected ==
    [][ (/\ last'.op = "move"
         /\ last'.action.card_index # None
         /\ last'.action.source # "deck"
         /\ Cardinality(NamedMatches) # 1)
        => (err' # "" /\ StoreUnchanged) ]_vars

\* This step is a move whose source is a deck stack that holds no card.
EmptyDrawStep ==
    /\ last'.op = "move"
    /\ last'.action.source = "deck"
    /\ decks[MoveGroupKey(last'.action)] = <<>>

\* C25: a move whose source is a deck stack that holds no card raises an
\* error and changes no zone and no field of any card.
C25_EmptyDrawFails ==
    [][ EmptyDrawStep => (err' # "" /\ StoreUnchanged) ]_vars

\* A draw from the age-1 stack has failed after an earlier draw had emptied
\* the stack.
C25_Witness ==
    /\ last.op = "move"
    /\ last.action.source = "deck"
    /\ MoveGroupKey(last.action) = <<1, SET_BASE>>
    /\ err = "IndexError"
    /\ decks[<<1, SET_BASE>>] = <<>>
    /\ \E p \in Players : Len(hands[p]) > DEAL_PER_PLAYER

\* The message matches the pattern of some branch of _process_entry.
Recognized(words) == \E k \in DOMAIN Patterns : Matches(Patterns[k].pattern, words)

\* C26: a transfer entry that matches none of the recognized shapes raises
\* an error that carries the entry's message and leaves the GameState
\* unchanged, and no entry is processed once an error has been raised.
C26_UnrecognizedAborts ==
    [][ /\ err = ""
        /\ (/\ last'.op = "_process_entry"
            /\ last'.type = "transfer"
            /\ ~Recognized(last'.words))
           => /\ err' = "ValueError: Unrecognized transfer pattern: " \o last'.msg
              /\ StoreUnchanged ]_vars

\* An unrecognized entry has aborted a run in which two moves had been
\* applied.
C26_Witness ==
    /\ last.op = "_process_entry"
    /\ err = "ValueError: Unrecognized transfer pattern: Opp draws a card."
    /\ steps = 3
    /\ hands # init_game.hands

\* The identities of the (age, BASE) group that are not the resolved identity
\* of any card in a hand, board, score pile or deck stack.
Unaccounted(age) ==
    LET held == UNION {Range(hands[p]) \cup Range(boards[p]) \cup Range(scores[p])
                       : p \in Players}
               \cup UNION {Range(decks[gk]) : gk \in GroupKeys}
    IN {n \in NamesOf(<<age, SET_BASE>>) :
           \A o \in held : cards[o].candidates # {n}}

\* C27: the snapshot lists 9 achievement slots in age order; the slot of an
\* age holds the name of the one identity of the (age, BASE) group that is
\* not the resolved identity of any card in a hand, board, score pile or deck
\* stack when there is exactly one such identity, and null otherwise. The
\* snapshot is taken between calls, never inside a running _propagate.
C27_AchievementDeduction ==
    LET snapshot == to_json(GS) IN
    ~propagating =>
    /\ snapshot.error = ""
    /\ DOMAIN snapshot.achievements = 1..NUM_ACHIEVEMENT_AGES
    /\ \A age \in 1..NUM_ACHIEVEMENT_AGES :
          snapshot.achievements[age]
              = IF Cardinality(Unaccounted(age)) = 1
                THEN [name |-> InfoByName[CHOOSE n \in Unaccounted(age) : TRUE].name]
                ELSE null

\* All five age-1 cards outside the achievements are resolved in hands and
\* deck, so the snapshot names the age-1 achievement.
C27_Witness ==
    /\ err = ""
    /\ Cardinality(Unaccounted(1)) = 1
    /\ to_json(GS).error = ""
    /\ to_json(GS).achievements[1] = [name |-> "Pottery"]

\* The entries of the resolved cards of a hand or score pile come first in
\* the snapshot's list, in the order of Named: every one of them has a
\* revealed flag equal to the card's opponent_knows_exact.
FlagsAgree(entries, list) ==
    \A k \in DOMAIN Named(GS, list) :
        entries[k].revealed = cards[Named(GS, list)[k]].opponent_knows_exact

\* C28: in the snapshot, the revealed flag of every resolved hand or score
\* pile entry is true exactly when the card's opponent_knows_exact is true.
C28_RevealedFlag ==
    LET snapshot == to_json(GS) IN
    snapshot.error = ""
        => \A p \in Players :
              /\ FlagsAgree(snapshot.hand[p], hands[p])
              /\ FlagsAgree(snapshot.score[p], scores[p])

\* The stack a successful move leaves behind: the card at index 0 is gone
\* when the move drew from the stack, and the moved card is at the end when
\* the move put it there; the other cards keep their places.
AfterDraw(stack, action) ==
    IF action.source = "deck" THEN Tail(stack) ELSE stack

AfterReturn(stack, action, id) ==
    IF action.dest = "deck" THEN Append(stack, id) ELSE stack

\* C29: deck stacks are first-in first-out: a successful move that draws
\* from a stack takes the card at index 0, a move to a deck puts the card at
\* the end, the other cards of the stack keep their relative order, and no
\* other stack and no failed move changes a stack.
C29_DeckFifo ==
    [][ /\ last'.op = "move" /\ err' = ""
           => LET action == last'.action
                  gk == MoveGroupKey(action)
              IN /\ action.source = "deck"
                    => decks[gk] # <<>> /\ last'.card = Head(decks[gk])
                 /\ decks'[gk] = AfterReturn(AfterDraw(decks[gk], action),
                                             action, last'.card)
                 /\ \A other \in GroupKeys \ {gk} : decks'[other] = decks[other]
        /\ ~(last'.op = "move" /\ err' = "") => decks' = decks ]_vars

\* A card that had been returned to the age-1 stack has just been drawn from
\* it, after the card that was in the stack from the start, and another
\* returned card is still waiting in the stack.
C29_Witness ==
    /\ err = ""
    /\ last.op = "move"
    /\ last.action.source = "deck"
    /\ last.action.dest = "hand"
    /\ last.card \in {102, 103, 104, 105}
    /\ decks[<<1, SET_BASE>>] # <<>>
    /\ 101 \notin Range(decks[<<1, SET_BASE>>])

\* This step is one pass of the while loop of the running call.
PassStep == last.op = "_propagate" /\ propagating /\ steps' = steps + 1

\* The cards the hidden-singles step resolved between before and after, and
\* those among them whose new identity some other card of the group has as
\* its resolved identity.
ResolvedBetween(before, after, group) ==
    {o \in Range(group) : ~is_resolved(before[o]) /\ is_resolved(after[o])}

Duplicated(before, after, group) ==
    {o \in ResolvedBetween(before, after, group) :
        \E other \in Range(group) \ {o} :
            /\ is_resolved(after[other])
            /\ card_index(after[other]) = card_index(after[o])}

\* The names left as hidden singles: in the candidates of exactly one
\* unresolved card of the group.
HiddenSinglesLeft(cs, group) ==
    {n \in UnresolvedNames(cs, group) : Cardinality(Holders(cs, group, n)) = 1}

\* C30: hidden singles at the fixed point: no pass of _propagate resolves a
\* card, in its hidden-singles step, to a name that is the resolved identity
\* of another card of the group, and when the call returns no name is in the
\* candidates of exactly one unresolved card of the group.
C30_HiddenSinglesFixedPoint ==
    [][ PassStep
        => LET group == _groups[PropagatedGroup]
               s1 == SingletonStep(cards, group, 1, FALSE)
           IN /\ \A s2 \in HiddenSinglesStep(s1.cs, group,
                                             UnresolvedNames(s1.cs, group), s1.changed) :
                    LET s3 == NakedSubsetsStep(s2.cs, group, s2.changed)
                    IN SuspectStep(s3.cs, group, 1, s3.changed) = Result(cards', propagating')
                       => Duplicated(s1.cs, s2.cs, group) = {}
              /\ ~propagating' => HiddenSinglesLeft(cards', group) = {} ]_vars

\* The unresolved cards of the group.
UnresolvedCards(cs, group) == {o \in Range(group) : ~is_resolved(cs[o])}

\* The names the cards of S admit between them.
NamesAdmitted(cs, S) == UNION {cs[o].candidates : o \in S}

\* The naked subsets left to apply: sets of k unresolved cards, 2 <= k < the
\* number of unresolved cards, that admit exactly k names between them while
\* another unresolved card still admits one of those names.
NakedSubsetsLeft(cs, group) ==
    LET unresolved == UnresolvedCards(cs, group) IN
    {S \in SUBSET unresolved :
        /\ Cardinality(S) >= 2
        /\ Cardinality(S) < Cardinality(unresolved)
        /\ Cardinality(NamesAdmitted(cs, S)) = Cardinality(S)
        /\ \E other \in unresolved \ S :
              cs[other].candidates \cap NamesAdmitted(cs, S) # {}}

\* C31: naked subsets at the fixed point: when _propagate returns for a
\* group with more than 3 unresolved cards, no naked subset is left to
\* apply.
C31_NakedSubsetsFixedPoint ==
    Returned
    => LET group == _groups[PropagatedGroup] IN
       Cardinality(UnresolvedCards(cards, group)) > NAKED_MIN_UNRESOLVED
           => NakedSubsetsLeft(cards, group) = {}

\* The cards that still admit the identity of a different resolved card of
\* their group.
AdmitsResolvedIdentity(cs) ==
    {o \in CardIds :
        \E other \in GroupCards(group_key(cs[o])) \ {o} :
            /\ is_resolved(cs[other])
            /\ card_index(cs[other]) \in cs[o].candidates}

\* C32: after init_game and after every move and reveal_hand, no card's
\* candidates contain the identity of a different resolved card of the same
\* group; in particular no two cards of a group are resolved to the same
\* identity.
C32_ResolvedIdentityExcluded ==
    last.op \in {"init_game", "move", "reveal_hand"} => AdmitsResolvedIdentity(cards) = {}

\* C33: propagation is deterministic: from the same group state, whatever
\* the order in which the hidden-singles step visits the names, _propagate
\* leaves the same candidates and opponent-knowledge fields for every card.
C33_PropagateDeterministic ==
    last.op = "_propagate" => Cardinality(_propagate(cards, PropagatedGroup)) = 1

\* C34: whenever move calls mark_public on a card (the move puts the card
\* where both players see it) the card is resolved at that moment, and no
\* move and no reveal_hand leaves a card suspected to be an undefined
\* identity.
C34_MarkPublicResolved ==
    [][ /\ (MoveStep /\ VisibleToBoth(last'.action)) => is_resolved(cards'[last'.card])
        /\ \A o \in CardIds : None \notin cards'[o].opponent_might_suspect ]_vars

\* This step is a move made by the perspective player out of their own hand
\* or score pile into a deck or their own hand or score pile.
OwnPrivateMoveStep ==
    /\ MoveStep
    /\ last'.action.source \in {"hand", "score"}
    /\ last'.action.source_player = perspective
    /\ \/ last'.action.dest = "deck"
       \/ /\ last'.action.dest \in {"hand", "score"}
          /\ last'.action.dest_player = perspective

\* The cards whose opponent_knows_exact this step lowers.
Lowered == {o \in CardIds : cards[o].opponent_knows_exact /\ ~cards'[o].opponent_knows_exact}

\* C35: a card's opponent_knows_exact goes from true to false only in a move
\* of the perspective player out of their own hand or score pile into a deck
\* or their own hand or score pile, and only for the moved card and the cards
\* of its group left in the source zone: no move of the other player, no
\* move to a board or revealed area, no reveal_hand and no propagation
\* lowers it.
C35_KnowledgeLoweredOnlyByOwnPrivateMove ==
    [][ Lowered # {} => OwnPrivateMoveStep /\ Lowered \subseteq AffectedAfter ]_vars

\* The last move was a private move of the perspective player, and a card
\* the opponent had been handing over, known to both, is no longer known
\* exactly to the opponent.
C35_Witness ==
    /\ Moved
    /\ last.action.source = "hand"
    /\ last.action.source_player = perspective
    /\ last.action.dest = "deck"
    /\ \E o \in {102, 103} :
          /\ o \in Range(hands[perspective]) \cup {last.card}
          /\ ~cards[o].opponent_knows_exact
          /\ cards[o].suspect_list_explicit

\* The zone containers after the card id has been taken out of the source
\* list of the action, the rest keeping its order, and appended to its
\* destination list.
Relocated(action, id) ==
    LET gk == MoveGroupKey(action)
        taken == SetCardsAt(GS, action.source, action.source_player, gk,
                            SelectSeq(_cards_at(GS, action.source, action.source_player, gk),
                                      LAMBDA o : o # id))
    IN SetCardsAt(taken, action.dest, action.dest_player, gk,
                  Append(_cards_at(taken, action.dest, action.dest_player, gk), id))

\* The zone containers of the next state are those of gs.
ZonesBecome(gs) ==
    /\ decks' = gs.decks
    /\ hands' = gs.hands
    /\ boards' = gs.boards
    /\ scores' = gs.scores
    /\ revealed' = gs.revealed
    /\ achievements' = gs.achievements

\* C36: a successful move changes the zone of exactly one card: the card is
\* removed from the source zone and appended to the destination zone, and
\* every other card stays where it was, in the same order; reveal_hand
\* changes no card's zone.
C36_MoveRelocatesOneCard ==
    [][ /\ MoveStep
           => /\ last'.card \in Range(_cards_at(GS, last'.action.source,
                                                last'.action.source_player,
                                                MoveGroupKey(last'.action)))
              /\ ZonesBecome(Relocated(last'.action, last'.card))
        /\ last'.op = "reveal_hand" => ZonesBecome(GS) ]_vars

\* A move has put a second card into a score pile, out of a hand that still
\* holds a card.
C36_Witness ==
    /\ Moved
    /\ last.action.source = "hand"
    /\ last.action.dest = "score"
    /\ Len(scores[last.action.dest_player]) = 2
    /\ hands[last.action.source_player] # <<>>

\* The groups a call acts on: the group of the card a move names or, for an
\* anonymous move, the group the action gives; the groups of the names a
\* reveal_hand lists.
ActedGroups(l) ==
    IF l.op = "move" THEN {MoveGroupKey(l.action)}
    ELSE {db_group_key(l.card_indices[k]) : k \in DOMAIN l.card_indices}

\* C37: a move or a reveal_hand acting on cards of a group leaves the
\* candidates and the opponent-knowledge fields of every card of any other
\* group as they were.
C37_PropagationScopedToGroup ==
    [][ last'.op \in {"move", "reveal_hand"}
           => \A o \in CardIds :
                 group_key(cards[o]) \notin ActedGroups(last') => cards'[o] = cards[o] ]_vars

\* An anonymous move has taken a card out of a hand that still holds a card
\* of the same group, whose candidates the move merged, and a card of another
\* group.
C37_Witness ==
    /\ Moved
    /\ last.action.card_index = None
    /\ last.action.source = "hand"
    /\ \E o \in Range(hands[last.action.source_player]) :
          /\ group_key(cards[o]) = group_key(cards[last.card])
          /\ ~is_resolved(cards[o])
    /\ \E o \in Range(hands[last.action.source_player]) :
          group_key(cards[o]) # group_key(cards[last.card])

\* The card admits every name of its group and no other name.
FullCandidates(c) == c.candidates = NamesOf(group_key(c))

\* C38: right after init_game there are 9 achievement slots, slot a holding
\* a card of group (a, BASE); every player's hand holds exactly 2 cards of
\* group (1, BASE); every other card is in the deck stack of its own group,
\* and no card is in two places; boards, score piles and revealed areas are
\* empty; every card has the full set of names of its group as candidates
\* (so is unresolved when the group has more than one name) and
\* opponent_knows_exact = FALSE.
C38_InitialLayout ==
    last.op = "init_game" =>
        /\ Len(achievements) = NUM_ACHIEVEMENT_AGES
        /\ \A a \in DOMAIN achievements :
              group_key(cards[achievements[a]]) = <<a, SET_BASE>>
        /\ \A p \in Players :
              /\ Len(hands[p]) = DEAL_PER_PLAYER
              /\ \A k \in DOMAIN hands[p] :
                    group_key(cards[hands[p][k]]) = <<1, SET_BASE>>
              /\ boards[p] = <<>>
              /\ scores[p] = <<>>
              /\ revealed[p] = <<>>
        /\ \A id \in CardIds :
              /\ Occurrences(id) = 1
              /\ \A gk \in GroupKeys :
                    id \in Range(decks[gk]) => gk = group_key(cards[id])
              /\ FullCandidates(cards[id])
              /\ Cardinality(NamesOf(group_key(cards[id]))) > 1 => ~is_resolved(cards[id])
              /\ cards[id].opponent_knows_exact = FALSE

\* init_game has returned: the hands are dealt and the stacks of the first
\* two ages still hold a card each.
C38_Witness ==
    /\ last.op = "init_game"
    /\ \A p \in Players : hands[p] # <<>>
    /\ decks[<<1, SET_BASE>>] # <<>>
    /\ decks[<<2, SET_BASE>>] # <<>>

\* The snapshot lists every card of the players' zones.
ZonesListed(snapshot) ==
    \A p \in Players :
        /\ Len(snapshot.hand[p]) = Len(hands[p])
        /\ Len(snapshot.score[p]) = Len(scores[p])
        /\ Len(snapshot.board[p]) = Len(boards[p])

\* The snapshot lists the deck stacks that hold a card, an entry per card in
\* stack order: the name of a resolved card, null for any other.
DecksListed(snapshot) ==
    /\ DOMAIN snapshot.actual_deck = {gk \in GroupKeys : decks[gk] # <<>>}
    /\ \A gk \in DOMAIN snapshot.actual_deck :
          /\ Len(snapshot.actual_deck[gk]) = Len(decks[gk])
          /\ \A k \in DOMAIN decks[gk] :
                IF is_resolved(cards[decks[gk][k]])
                THEN snapshot.actual_deck[gk][k].name
                        = display_name(card_index(cards[decks[gk][k]]))
                ELSE snapshot.actual_deck[gk][k] = null

\* C39: the snapshot to_json returns loses no card: the hand, score and
\* board lists of every player have as many entries as the zone has cards,
\* and every non-empty deck stack is listed with one entry per card in stack
\* order, the name for a resolved card and null otherwise. The snapshot is
\* taken between calls.
C39_SnapshotLosesNoCard ==
    LET snapshot == to_json(GS)
    IN (~propagating /\ snapshot.error = "")
          => ZonesListed(snapshot) /\ DecksListed(snapshot)

====
